---- MODULE Spec2Model ----
(***************************************************************************)
(* A model of the mentat command line assistant, in parts:                 *)
(*                                                                         *)
(*   - the streaming parser, Parser.stream_and_parse_llm_response          *)
(*     (src/mentat/parsers/parser.py), which turns the chunks of an LLM    *)
(*     response into printed text and a list of FileEdits;                 *)
(*   - the session kernel: Session (src/mentat/session.py), the input      *)
(*     protocol (src/mentat/session_input.py) and the terminal client      *)
(*     (src/mentat/terminal/client.py), which talk over the session        *)
(*     stream's channels;                                                  *)
(*   - the turn loop of Session._main with the agent follow-up             *)
(*     (src/mentat/agent_handler.py), one step per await of the main task, *)
(*     the answers of the user and of the model being inputs.              *)
(*   - the context engine, CodeContext (src/mentat/code_context.py), with  *)
(*     the cache of the code message and the /clear command                *)
(*     (src/mentat/command/commands/clear.py);                             *)
(*   - the feature selectors (src/mentat/auto_context.py);                 *)
(*   - the edit applier and the edit history, as Session._main drives them *)
(*     in and outside agent mode, and the tasks around the working tree;   *)
(*   - the agent handler's switch, AgentHandler.enable_agent_mode and      *)
(*     disable_agent_mode (src/mentat/agent_handler.py);                   *)
(*   - the legacy loop and its feedback round (src/mentat/app.py).         *)
(*                                                                         *)
(* Text is modelled as a sequence of atoms (tokens); "\n" is the only atom *)
(* that ends a line.  A chunk of the stream is a run of atoms.             *)
(***************************************************************************)
EXTENDS Integers, Sequences, FiniteSets, TLC

VARIABLES
    text,       \* parser: the whole LLM response (the async generator's content)
    pos,        \* parser: number of atoms of text already delivered in chunks
    shutdown,   \* parser: Parser.shutdown, the Event set by shutdown_handler
    parser,     \* parser: the frame of stream_and_parse_llm_response
    session,    \* kernel: the Session, its main task and its exit listener
    client,     \* kernel: the TerminalClient and its background tasks
    stream,     \* kernel: the session stream, what was published per channel
    turn,       \* turn loop: the frame of Session._main and the run's history
    context,    \* context engine: the CodeContext, the repository, the calls
    selection,  \* feature selectors: the arguments and the result of select
    tree,       \* edit applier: the working tree and the edit history
    app,        \* legacy loop: the frame of app.loop and of its feedback round
    agent       \* agent handler: the AgentHandler and the calls made on it

parserVars == <<text, pos, shutdown, parser>>

kernelVars == <<session, client, stream>>

engineVars == <<context, selection, tree, app, agent>>

vars ==
    <<text, pos, shutdown, parser, session, client, stream, turn, context,
      selection, tree, app, agent>>

(***************************************************************************)
(* Bounds of the model.                                                    *)
(***************************************************************************)
\* longest response made of single lines, in lines
MaxLines == 3
\* longest response made of edit blocks, in blocks
MaxSegs == 3
\* largest chunk, in atoms
MaxChunk == 3
\* most input requests a session publishes
MaxRequests == 2
\* most SIGINTs the client receives
MaxSigInts == 3
\* most responses the model gives to get_model_response in a session
MaxResponses == 2
\* most input requests the user answers in a session of the turn loop
MaxPrompts == 4
\* most edits in one response of the model
MaxEdits == 2
\* most applications of edits to the working tree in a session
MaxWrites == 2
\* most calls of get_code_message in a run of the context engine
MaxCalls == 2
\* most changes of the context engine's inputs in a run
MaxChanges == 2
\* longest list of features passed to a selector
MaxFeatures == 3
\* largest max_tokens passed to a selector
MaxBudget == 8
\* longest list of references in the selector model's response
MaxRefs == 2

(***************************************************************************)
(* Strings.                                                                *)
(***************************************************************************)
NL == "\n"

NoPath == "none"

IsPrefix(s, t) == Len(s) <= Len(t) /\ SubSeq(t, 1, Len(s)) = s

RECURSIVE LStrip(_)
LStrip(s) == IF s # <<>> /\ Head(s) = NL THEN LStrip(Tail(s)) ELSE s

RECURSIVE RStrip(_)
RStrip(s) ==
    IF s # <<>> /\ s[Len(s)] = NL THEN RStrip(SubSeq(s, 1, Len(s) - 1)) ELSE s

\* str.strip(): the only whitespace atom of the model is the line end
Strip(s) == RStrip(LStrip(s))

HasNL(s) == \E i \in 1..Len(s) : s[i] = NL

FirstNL(s) == CHOOSE i \in 1..Len(s) : s[i] = NL /\ \A j \in 1..(i - 1) : s[j] # NL

\* str.splitlines(keepends=True): every piece ends at the first line end in it
RECURSIVE ChunkToLines(_)
ChunkToLines(chunk) ==
    IF chunk = <<>> THEN <<>>
    ELSE IF ~HasNL(chunk) THEN <<chunk>>
    ELSE <<SubSeq(chunk, 1, FirstNL(chunk))>>
             \o ChunkToLines(SubSeq(chunk, FirstNL(chunk) + 1, Len(chunk)))

\* termcolor.colored(s, color="green"): s between two escape sequences
Colored(s) == <<"<green>">> \o s \o <<"<reset>">>

StripAnsi(s) == SelectSeq(s, LAMBDA a : a \notin {"<green>", "<reset>"})

(***************************************************************************)
(* The block format: the three indicator lines and the JSON headers.       *)
(***************************************************************************)
BlockStart == <<"@@", "start">>

BlockCode == <<"@@", "code">>

BlockEnd == <<"@@", "end">>

Indicators == {BlockStart, BlockCode, BlockEnd}

\* a line is held back while it is still a prefix of an indicator
CouldBeSpecial(line) == \E ind \in Indicators : IsPrefix(line, ind)

StartsSpecial(line) == line = BlockStart

EndsSpecial(line) == line \in {BlockCode, BlockEnd}

EndsCode(line) == line = BlockEnd

\* the well-formed JSON headers of the model, one atom each
Headers ==
    {"ins_a", "del_a", "create_a", "rm_a", "ren_a_b", "ren_a_c", "ren_b_c",
     "ins_c"}

HeaderFile(h) ==
    CASE h \in {"ins_a", "del_a", "create_a", "rm_a", "ren_a_b", "ren_a_c"}
             -> "a"
      [] h = "ren_b_c" -> "b"
      [] h = "ins_c" -> "c"

HeaderAction(h) ==
    CASE h \in {"ins_a", "ins_c"} -> "insert"
      [] h = "del_a" -> "delete"
      [] h = "create_a" -> "create-file"
      [] h = "rm_a" -> "delete-file"
      [] h \in {"ren_a_b", "ren_a_c", "ren_b_c"} -> "rename-file"

HeaderNewName(h) ==
    CASE h = "ren_a_b" -> "b"
      [] h \in {"ren_a_c", "ren_b_c"} -> "c"
      [] OTHER -> NoPath

\* the lines a header's action changes: (start, end), end < start for an insertion
HeaderLines(h) ==
    CASE HeaderAction(h) = "insert" -> <<2, 1>>
      [] HeaderAction(h) = "delete" -> <<1, 2>>
      [] OTHER -> <<0, 0>>

Replacement(first, last, lines) ==
    [starting_line |-> first, ending_line |-> last, new_lines |-> lines]

\* the lines of a block, each stripped: special_block.strip().split("\n")
StripEach(ls) == [i \in 1..Len(ls) |-> Strip(ls[i])]

BlockLines(block) == StripEach(ChunkToLines(Strip(block)))

\* the header a block's JSON lines parse to: block[1:-1] is one well-formed line
HeaderOf(block) ==
    IF Len(block) = 3 /\ Len(block[2]) = 1 /\ block[2][1] \in Headers
    THEN block[2][1]
    ELSE "bad"

DisplayInformation(h) ==
    [file_name |-> HeaderFile(h),
     new_name |-> HeaderNewName(h),
     file_action_type |-> HeaderAction(h),
     removed_block |-> HeaderAction(h) = "delete",
     first_changed_line |-> HeaderLines(h)[1],
     last_changed_line |-> HeaderLines(h)[2]]

\* the FileEdit of one block: a delete without code carries its replacement
BlockFileEdit(h, has_code) ==
    [file_path |-> HeaderFile(h),
     replacements |->
         IF HeaderAction(h) = "delete" /\ ~has_code
         THEN <<Replacement(HeaderLines(h)[1], HeaderLines(h)[2], <<>>)>>
         ELSE <<>>,
     is_creation |-> HeaderAction(h) = "create-file",
     is_deletion |-> HeaderAction(h) = "delete-file",
     rename_file_path |-> HeaderNewName(h)]

SpecialResult(h, has_code) ==
    IF h = "bad" THEN [error |-> TRUE]
    ELSE [error |-> FALSE,
          display_information |-> DisplayInformation(h),
          file_edit |-> BlockFileEdit(h, has_code),
          has_code |-> has_code]

SpecialBlockOf(block) ==
    SpecialResult(HeaderOf(block), block[Len(block)] = BlockCode)

\* _special_block: (DisplayInformation, FileEdit, has_code), or a ModelError
SpecialBlock(rename_map, special_block) ==
    SpecialBlockOf(BlockLines(special_block))

\* the code lines of a code block: its lines without the terminator
CodeLines(code_block) ==
    SelectSeq(BlockLines(code_block), LAMBDA l : ~EndsCode(l))

\* _add_code_block: the replacement the code block adds to its FileEdit
CodeReplacement(code_block, di) ==
    Replacement(di.first_changed_line, di.last_changed_line, CodeLines(code_block))

(***************************************************************************)
(* Dictionaries (dict[Path, Path], dict[Path, FileEdit]).  file_edits is   *)
(* kept as the sequence of its values in insertion order, which is the     *)
(* order the returned list has; its keys are the values' file_path at the  *)
(* time they were inserted, and no file_path changes after insertion.      *)
(***************************************************************************)
EmptyMap == [x \in {} |-> x]

Put(f, k, v) == [x \in DOMAIN f \cup {k} |-> IF x = k THEN v ELSE f[x]]

Get(f, k, default) == IF k \in DOMAIN f THEN f[k] ELSE default

HasEdit(file_edits, path) ==
    \E i \in 1..Len(file_edits) : file_edits[i].file_path = path

EditIndex(file_edits, path) ==
    CHOOSE i \in 1..Len(file_edits) : file_edits[i].file_path = path

(***************************************************************************)
(* The frame of stream_and_parse_llm_response.  Optional values are        *)
(* sequences of length 0 (None) or 1.  file_edit holds the key of the      *)
(* FileEdit object the local variable refers to: after a special block the *)
(* local is always the object stored in file_edits under its file_path.    *)
(* The fields alias, origins, carried, last_special and block_start are    *)
(* history fields: nothing of the parser reads them.                       *)
(***************************************************************************)
InitFrame ==
    [pc |-> "loop",
     message |-> <<>>,
     file_edits |-> <<>>,
     cur_line |-> <<>>,
     prev_block |-> <<>>,
     cur_block |-> <<>>,
     display_information |-> <<>>,
     file_edit |-> <<>>,
     line_printed |-> FALSE,
     in_special_lines |-> FALSE,
     in_code_lines |-> FALSE,
     conversation |-> TRUE,
     printed_delimiter |-> FALSE,
     rename_map |-> EmptyMap,
     printed |-> <<>>,
     result |-> <<>>,
     interrupted |-> FALSE,
     model_error |-> FALSE,
     alias |-> EmptyMap,
     origins |-> EmptyMap,
     carried |-> EmptyMap,
     last_special |-> <<>>,
     block_start |-> 0]

\* faulty variant: cur_line = content
AccumulateNoAppend(p, content) ==
    [p EXCEPT !.message = @ \o content, !.cur_line = content]

\* message += content; cur_line += content
Accumulate(p, content) ==
    [p EXCEPT !.message = @ \o content, !.cur_line = @ \o content]

\* "+" and its padding, in green
CodeLineBeginning == Colored(<<"+">>)

CodeLineContent(content) == Colored(content)

\* what the first print of a line shows: the line so far
FirstPrint(p) ==
    IF ~p.in_code_lines \/ p.display_information = <<>>
    THEN p.cur_line
    ELSE CodeLineBeginning \o CodeLineContent(p.cur_line)

\* Print if not in special lines and line is confirmed not special
PrintContent(p, content) ==
    IF p.in_special_lines THEN p
    ELSE IF ~p.line_printed
    THEN IF ~CouldBeSpecial(Strip(p.cur_line))
         THEN [p EXCEPT !.line_printed = TRUE, !.printed = @ \o FirstPrint(p)]
         ELSE p
    ELSE [p EXCEPT !.printed = @ \o
                       (IF ~p.in_code_lines THEN content
                        ELSE CodeLineContent(content))]

\* If we print non code lines, we want to reprint the file name of the next change
SetConversation(p) ==
    IF ~p.in_code_lines /\ ~p.in_special_lines /\ p.line_printed
    THEN [p EXCEPT !.conversation = TRUE]
    ELSE p

PrintLine(p, content) == SetConversation(PrintContent(p, content))

\* faulty variant: flags combined with and, the rename target always overwritten
MergeFileEditAnd(cur, new) ==
    [cur EXCEPT !.is_creation = cur.is_creation /\ new.is_creation,
                !.is_deletion = cur.is_deletion /\ new.is_deletion,
                !.rename_file_path = new.rename_file_path]

\* New file_edit creation and merging: the stored FileEdit after a later block
MergeFileEdit(cur, new) ==
    [cur EXCEPT !.is_creation = cur.is_creation \/ new.is_creation,
                !.is_deletion = cur.is_deletion \/ new.is_deletion,
                !.rename_file_path =
                    IF new.rename_file_path # NoPath
                    THEN new.rename_file_path
                    ELSE @]

\* Print file header: whether the file name is printed again
HeaderNamed(conversation, di, path, previous_file) ==
    \/ conversation
    \/ di.file_action_type = "rename-file"
    \/ <<path>> # previous_file

\* Print file header; previous lines, removed block, and possibly later lines
HeaderOut(named, printed_delimiter, shows_change, in_code) ==
    (IF named
     THEN <<"<file_name>">> \o
             (IF shows_change THEN <<"<change_delimiter>">> ELSE <<>>)
     ELSE IF ~printed_delimiter THEN <<"<change_delimiter>">>
     ELSE <<>>)
    \o
    (IF shows_change
     THEN <<"<previous_lines>", "<removed_lines>">> \o
             (IF ~in_code THEN <<"<later_lines>", "<change_delimiter>">> ELSE <<>>)
     ELSE <<>>)

\* the ModelError of a malformed header: print it and return the edits so far
ModelErrorReturn(p, block) ==
    [p EXCEPT !.pc = "returned",
              !.model_error = TRUE,
              !.in_special_lines = TRUE,
              !.cur_block = block,
              !.printed = @ \o <<"<model_error>", "<using_existing>">>,
              !.result = p.file_edits]

\* Rename map handling: the map after the block's declaration
RenameMapAfter(rename_map, di) ==
    IF di.new_name # NoPath
    THEN Put(rename_map, di.new_name, di.file_name)
    ELSE rename_map

\* Rename map handling: the path the block's FileEdit is stored under
ResolvedPath(rename_map, di, new) ==
    IF di.file_name \in DOMAIN rename_map
    THEN rename_map[di.file_name]
    ELSE new.file_path

\* New file_edit creation and merging
StoreFileEdit(file_edits, moved) ==
    IF ~HasEdit(file_edits, moved.file_path)
    THEN Append(file_edits, moved)
    ELSE [file_edits EXCEPT
             ![EditIndex(file_edits, moved.file_path)] = MergeFileEdit(@, moved)]

\* history of a special block: what it named, and what was stored before it
History(p, di, moved, under) ==
    [p EXCEPT !.alias = IF di.new_name # NoPath
                        THEN Put(@, di.new_name, under)
                        ELSE @,
              !.origins = Put(@, moved.file_path,
                              Get(@, moved.file_path, {}) \cup {under}),
              !.carried = Put(@, moved.file_path,
                              Get(@, moved.file_path, <<>>) \o moved.replacements),
              !.last_special =
                  <<[path |-> moved.file_path,
                     merged |-> HasEdit(p.file_edits, moved.file_path),
                     old |-> IF HasEdit(p.file_edits, moved.file_path)
                             THEN p.file_edits[EditIndex(p.file_edits, moved.file_path)]
                             ELSE moved,
                     new |-> moved]>>]

\* the frame after a well-formed special block: lines 149-207
AfterSpecial(p, block, di, has_code, rmap, moved, named) ==
    [History(p, di, moved, Get(p.alias, di.file_name, di.file_name)) EXCEPT
        !.display_information = <<di>>,
        !.file_edit = <<moved.file_path>>,
        !.in_code_lines = has_code,
        !.in_special_lines = FALSE,
        !.prev_block = block,
        !.cur_block = <<>>,
        !.rename_map = rmap,
        !.file_edits = StoreFileEdit(p.file_edits, moved),
        !.conversation = IF named THEN FALSE ELSE @,
        !.printed_delimiter =
            IF named THEN (has_code \/ di.removed_block) ELSE TRUE,
        !.printed = @ \o HeaderOut(named, p.printed_delimiter,
                                   has_code \/ di.removed_block, has_code)]

Resolved(p, block, di, has_code, rmap, moved) ==
    AfterSpecial(p, block, di, has_code, rmap, moved,
                 HeaderNamed(p.conversation, di, moved.file_path, p.file_edit))

Renamed(p, block, di, has_code, new, rmap) ==
    Resolved(p, block, di, has_code, rmap,
             [new EXCEPT !.file_path = ResolvedPath(rmap, di, new)])

EndSpecialWith(p, block, r) ==
    IF r.error THEN ModelErrorReturn(p, block)
    ELSE Renamed(p, block, r.display_information, r.has_code, r.file_edit,
                 RenameMapAfter(p.rename_map, r.display_information))

\* the line that ends a special block: lines 126-207
EndSpecial(p, block) ==
    EndSpecialWith(p, block, SpecialBlock(p.rename_map, block))

AppendReplacement(p, path, rep) ==
    [p EXCEPT !.file_edits[EditIndex(p.file_edits, path)].replacements =
                  Append(@, rep),
              !.carried[path] = Append(@, rep),
              !.printed = @ \o <<"<later_lines>">>]

\* Adding code lines to previous file_edit and printing later lines
AddCodeBlock(p, code_block) ==
    IF p.display_information # <<>> /\ p.file_edit # <<>>
    THEN AppendReplacement(p, p.file_edit[1],
                           CodeReplacement(code_block, p.display_information[1]))
    ELSE p

\* the line that ends a code block: lines 208-219
EndCode(p, block) ==
    [AddCodeBlock(p, block) EXCEPT
        !.printed = @ \o <<"<change_delimiter>">>,
        !.in_code_lines = FALSE,
        !.prev_block = block,
        !.cur_block = <<>>]

\* line_printed = False; cur_line = "", unless the ModelError returned
EndOfLine(p) ==
    IF p.pc = "returned" THEN p
    ELSE [p EXCEPT !.line_printed = FALSE, !.cur_line = <<>>]

\* a complete line, given its class and the block it extends
Classified(p, line, special, block) ==
    IF special /\ EndsSpecial(line)
    THEN EndSpecial(p, block)
    ELSE IF p.in_code_lines /\ EndsCode(line)
    THEN EndCode([p EXCEPT !.in_special_lines = special], block)
    ELSE [p EXCEPT !.in_special_lines = special, !.cur_block = block]

StartSpecial(p, line, special) ==
    Classified(p, line, special,
               IF special \/ p.in_code_lines
               THEN p.cur_block \o p.cur_line
               ELSE p.cur_block)

\* history: how much of the response came before the special block that
\* starts with this line
MarkBlock(p) ==
    IF ~p.in_special_lines /\ StartsSpecial(Strip(p.cur_line))
    THEN [p EXCEPT !.block_start = Len(p.message) - Len(p.cur_line)]
    ELSE p

\* New line handling: lines 118-221
NewLine(p) ==
    IF ~HasNL(p.cur_line) THEN p
    ELSE EndOfLine(StartSpecial(MarkBlock(p), Strip(p.cur_line),
                                p.in_special_lines
                                    \/ StartsSpecial(Strip(p.cur_line))))

\* the body of the loop over chunk_to_lines(chunk): lines 88-221
ProcessContent(p, content) ==
    IF content = <<>> THEN p
    ELSE NewLine(PrintLine(Accumulate(p, content), content))

RECURSIVE ProcessPieces(_, _)
ProcessPieces(p, pieces) ==
    IF pieces = <<>> \/ p.pc = "returned" THEN p
    ELSE ProcessPieces(ProcessContent(p, Head(pieces)), Tail(pieces))

\* one iteration of the loop over the response, the interrupt not set
ProcessChunk(p, chunk) == ProcessPieces(p, ChunkToLines(chunk))

\* the loop's else branch and the return: the stream ended (lines 222-241)
CloseCode(p) ==
    IF p.in_code_lines /\ p.display_information # <<>> /\ p.file_edit # <<>>
    THEN [AddCodeBlock(p, p.cur_block) EXCEPT
             !.printed = @ \o <<"<change_delimiter>">>]
    ELSE p

Returned(p) == [p EXCEPT !.pc = "returned", !.result = p.file_edits]

StreamEndReturn(p) == Returned(CloseCode(p))

\* the interrupt seen at the top of the loop: break, then the return
InterruptReturn(p) ==
    [p EXCEPT !.pc = "returned", !.interrupted = TRUE, !.result = p.file_edits]

(***************************************************************************)
(* The responses the model checks: every sequence of at most MaxLines      *)
(* single lines, every sequence of at most MaxSegs blocks of one of two    *)
(* families, and blocks followed by a code block cut in its last line.     *)
(***************************************************************************)
Line(body) == body \o <<NL>>

ClosedBlock(h) == Line(BlockStart) \o Line(<<h>>) \o Line(BlockEnd)

OpenBlock(h) ==
    Line(BlockStart) \o Line(<<h>>) \o Line(BlockCode) \o Line(<<"x">>)

CodeBlock(h) == OpenBlock(h) \o Line(BlockEnd)

\* a code block whose last line has no line end yet
PartialBlock(h) == OpenBlock(h) \o <<"x">>

LineSegs ==
    {Line(<<"x">>), Line(<<"@@">>), Line(BlockStart), Line(BlockCode),
     Line(BlockEnd), Line(<<"ins_a">>), <<"x">>}

\* blocks that rename, and edits under old and new names
RenameSegs ==
    {ClosedBlock(h) : h \in {"ren_a_b", "ren_a_c", "ren_b_c"}}
        \cup {CodeBlock("ins_a"), CodeBlock("ins_c")}

\* blocks that all name one file
EditSegs ==
    {ClosedBlock(h) : h \in {"ren_a_b", "del_a", "create_a", "rm_a"}}
        \cup {CodeBlock("ins_a"), OpenBlock("ins_a")}

Extend(texts, segs) == texts \cup {t \o s : t \in texts, s \in segs}

RECURSIVE TextsOf(_, _)
TextsOf(segs, n) ==
    IF n = 0 THEN {<<>>} ELSE Extend(TextsOf(segs, n - 1), segs)

\* responses that end in the middle of a code line
PartialTexts == {t \o PartialBlock("ins_a") : t \in TextsOf(EditSegs, MaxSegs - 1)}

Texts ==
    TextsOf(LineSegs, MaxLines) \cup TextsOf(RenameSegs, MaxSegs)
        \cup TextsOf(EditSegs, MaxSegs) \cup PartialTexts

(***************************************************************************)
(* The session kernel: what the user can type, the stream, the Session and *)
(* the TerminalClient.  A task is modelled by the await it is suspended    *)
(* at; one action is one run of a task from an await to its next await.    *)
(* Task.cancel() on a task suspended at an await makes its next run raise  *)
(* CancelledError at that await; a cancelled task that was only waiting    *)
(* never runs another line, so it is marked "cancelled" at once.           *)
(***************************************************************************)
Inputs == {"q", " q", "", "hi", "/help"}

Untyped == "<none>"

\* str.strip() on the inputs of the model
StripInput(d) == IF d = " q" THEN "q" ELSE d

\* response.data.startswith("/")
IsCommand(d) == d = "/help"

\* the stream: per channel, what was published on it so far; the ids of the
\* messages on input_request are 1, 2, ... in publish order
InitStream ==
    [input_request |-> 0,
     responses |-> [id \in 1..MaxRequests |-> <<>>],
     session_exit |-> 0,
     client_exit |-> 0,
     interrupt |-> 0,
     edits_complete |-> 0,
     interrupt_lock |-> FALSE,
     stopped |-> FALSE]         \* stream.stop() was called

InitSession ==
    [pc |-> "start",
     must_cancel |-> FALSE,
     stopped |-> FALSE,
     exit_listener |-> "waiting",
     ended |-> "none",
     steps |-> <<>>]            \* the steps of _stop taken so far

InitClient ==
    [handler |-> "recv",
     request |-> 0,
     typed |-> [id \in 1..MaxRequests |-> Untyped],
     should_exit |-> FALSE,
     exit_sender |-> "waiting",
     exit_listener |-> "waiting",
     shutdown |-> "none",
     stopped |-> FALSE,
     force_exited |-> FALSE,
     interrupt_tasks |-> 0,
     sigints |-> 0,
     error |-> "none"]           \* the exception that ended _run

\* stream.send("", channel="input_request")
SendInputRequest(st) == [st EXCEPT !.input_request = @ + 1]

\* faulty variant: the response is published twice
InputResponseTwice(st, id, d) ==
    [st EXCEPT !.responses[id] = Append(Append(@, d), d)]

\* stream.send(user_input, channel=f"input_request:{id}")
InputResponse(st, id, d) == [st EXCEPT !.responses[id] = Append(@, d)]

\* faulty variant: nothing is published on client_exit
SendClientExitNot(st) == st

\* stream.send(None, channel="client_exit")
SendClientExit(st) == [st EXCEPT !.client_exit = @ + 1]

\* task.cancel() for a task that is waiting
Cancel(task) == IF task \in {"waiting", "recv", "prompt", "pending"}
                THEN "cancelled" ELSE task

\* _stop, as far as its await of the main task: the listeners are cancelled
\* and the main task, which is the task running _stop, cancels itself
Stop(s) ==
    IF s.stopped THEN [s EXCEPT !.pc = "done"]
    ELSE [s EXCEPT !.stopped = TRUE,
                   !.exit_listener = Cancel(@),
                   !.must_cancel = TRUE,
                   !.pc = "stopping",
                   !.steps = <<"cancel_tasks", "cancel_main">>]

\* faulty variant: the bus is drained before client_exit is sent
AfterMainTaskDrainFirst(s) ==
    [s EXCEPT !.pc = "joining",
              !.must_cancel = FALSE,
              !.steps = @ \o <<"await_main", "join", "client_exit">>]

\* session.py 273-279: the await of the main task is over, client_exit is
\* sent and the join of the stream is awaited
AfterMainTask(s) ==
    [s EXCEPT !.pc = "joining",
              !.must_cancel = FALSE,
              !.steps = @ \o <<"await_main", "client_exit">>]

\* session.py 279-280: the stream has drained and is stopped
AfterJoin(s) == [s EXCEPT !.pc = "done", !.steps = @ \o <<"join", "stop">>]

\* the turn loop is left (break, or an exception leaves _main) and run_main
\* reaches its finally clause
LoopEnds(s, reason) == Stop([s EXCEPT !.ended = reason, !.must_cancel = FALSE])

\* faulty variant: the handler does not look at the interrupt lock
HandleSigIntNoLock(locked, should_exit) ==
    IF should_exit THEN "force_exit" ELSE "should_exit"

\* the branch _handle_sig_int takes
HandleSigInt(locked, should_exit) ==
    IF ~locked
    THEN IF should_exit THEN "force_exit" ELSE "should_exit"
    ELSE "interrupt"

\* every task of the client that is in _tasks is cancelled
CancelClientTasks(c) ==
    [c EXCEPT !.handler = Cancel(@),
              !.exit_sender = Cancel(@),
              !.exit_listener = Cancel(@),
              !.interrupt_tasks = 0]

(***************************************************************************)
(* The turn loop of Session._main (src/mentat/session.py 143-200) and the  *)
(* agent follow-up (src/mentat/agent_handler.py), seen from the main task  *)
(* alone: the user's answers and the model's responses are inputs.         *)
(***************************************************************************)
Whitespace == {" ", NL}

\* str.strip()
RECURSIVE StripWs(_)
StripWs(s) ==
    IF s = <<>> THEN s
    ELSE IF Head(s) \in Whitespace THEN StripWs(Tail(s))
    ELSE IF s[Len(s)] \in Whitespace THEN StripWs(SubSeq(s, 1, Len(s) - 1))
    ELSE s

\* str.split("\n"): the empty string gives one empty piece
RECURSIVE SplitNL(_, _)
SplitNL(s, piece) ==
    IF s = <<>> THEN <<piece>>
    ELSE IF Head(s) = NL THEN <<piece>> \o SplitNL(Tail(s), <<>>)
    ELSE SplitNL(Tail(s), Append(piece, Head(s)))

\* str.splitlines(): the empty string gives no line, a final line end none
SplitLines(s) ==
    IF s = <<>> THEN <<>>
    ELSE IF s[Len(s)] = NL THEN SplitNL(SubSeq(s, 1, Len(s) - 1), <<>>)
    ELSE SplitNL(s, <<>>)

\* str.lower() on the atoms of the model
Lower(s) == [i \in 1..Len(s) |-> IF s[i] = "Y" THEN "y"
                                  ELSE IF s[i] = "N" THEN "n"
                                  ELSE IF s[i] = "I" THEN "i" ELSE s[i]]

\* answers that end the session
QuitAnswers == {<<"q">>, <<" ", "q">>, <<"q", NL>>}

\* what the user types at "What can I do for you?"
TurnInputs ==
    {<<>>, <<" ">>, <<"hi">>, <<"q", "q">>, <<"/", "agent">>, <<"/", "clear">>,
     <<"/", "bogus">>, <<"/", "agent", " ", "'">>}

\* the user's answers to the apply prompt of get_user_feedback_on_edits
FeedbackAnswers == {<<"y">>, <<"n">>, <<"i">>, <<"fix", " ", "it">>}

\* the user's answers to ask_yes_no
YesNoAnswers == {<<"y">>, <<"Y">>, <<"n">>, <<" ", "N">>, <<>>, <<"maybe">>}

\* the model's answers to the agent's command prompt
CommandContents ==
    {<<>>, <<" ">>, <<NL>>, <<"ls">>, <<"ls", NL, "pytest">>, <<" ", "ls", NL>>}

\* what the user types instead of the commands the model proposed
Replacements == {<<>>, <<" ">>, <<"make">>, <<"make", NL, "ls", NL>>}

\* the answers the client may give to the input request of a caller
AnswersAt(pc) ==
    QuitAnswers \cup
        CASE pc = "input" -> TurnInputs
          [] pc = "feedback" -> FeedbackAnswers
          [] pc = "agent_yes_no" -> YesNoAnswers
          [] pc = "agent_input" -> Replacements
          [] OTHER -> {}

\* faulty variant: only the names of known commands make a command
StartsWithKnownCommand(data) ==
    data # <<>> /\ Head(data) = "/" /\ Len(data) > 1 /\ data[2] \in {"agent", "clear"}

\* response.data.startswith("/")
StartsWithSlash(data) == data # <<>> /\ Head(data) = "/"

\* faulty variant: only the literal "q" quits
CollectUserInputLiteral(data) ==
    [raised |-> data = <<"q">>, response |-> data]

\* session_input.py 21-35: collect_user_input, given the client's response
CollectUserInput(data) ==
    [raised |-> StripWs(data) = <<"q">>, response |-> data]

\* the validity (FileEdit.is_valid) of each edit of a model response
RECURSIVE EditLists(_)
EditLists(n) ==
    IF n = 0 THEN {<<>>}
    ELSE LET shorter == EditLists(n - 1)
         IN  shorter \cup {Append(l, v) : l \in {s \in shorter : Len(s) = n - 1},
                                          v \in BOOLEAN}

InitTurn ==
    [pc                |-> "start",
     need_user_request |-> TRUE,
     agent_enabled     |-> FALSE,
     conversation      |-> <<>>,    \* roles of the messages after the prompts
     file_edits        |-> 0,       \* len(file_edits) of the turn
     interrupted       |-> FALSE,   \* parsed_llm_response.interrupted
     content           |-> <<>>,    \* the model's answer to the agent
     commands          |-> <<>>,    \* add_agent_context's commands
     edits_complete    |-> <<>>,    \* what was sent on edits_complete
     ended             |-> "none",
     \* history of the run
     log               |-> <<>>,    \* events: "push", "input", "empty",
                                    \* "write", "run"
     produced          |-> 0,       \* valid edits of the turn's response
     declined          |-> FALSE,   \* the user answered no to the commands
     applied           |-> 0,       \* edits handed to write_changes_to_files
     ran               |-> 0,       \* calls of conversation.run_command
     aborted           |-> 0,       \* turns ended by ContextSizeInsufficient
     responses         |-> 0,       \* calls of get_model_response answered
     errors            |-> 0,       \* error messages sent for commands
     dispatch          |-> 0,       \* commands created and applied for the
                                    \* last answer
     forgotten         |-> 0,       \* messages the last clear_messages removed
     prompts           |-> 0,       \* input requests answered
     caller            |-> "none",  \* where the last request was made
     answer            |-> <<>>,    \* the client's last response
     message           |-> <<>>]    \* what collect_user_input returned last

\* faulty variant: the edits are pushed in every iteration
LoopTopPushAlways(t) ==
    IF t.need_user_request
    THEN [t EXCEPT !.pc = "input",
                   !.log = IF t.agent_enabled THEN Append(@, "push") ELSE @]
    ELSE [t EXCEPT !.pc = "model",
                   !.log = IF t.agent_enabled THEN Append(@, "push") ELSE @]

\* session.py 144-159: the head of the loop, as far as its first await
LoopTop(t) ==
    IF t.need_user_request
    THEN [t EXCEPT !.pc = "input",
                   !.log = IF t.agent_enabled THEN Append(@, "push") ELSE @]
    ELSE [t EXCEPT !.pc = "model"]

\* session.py 192, then the next iteration
EndTurn(t) ==
    LoopTop([t EXCEPT !.edits_complete = Append(@, t.file_edits > 0)])

\* session.py 170-183: code_file_manager.write_changes_to_files(file_edits)
WriteChanges(t) ==
    [t EXCEPT !.applied = @ + t.file_edits,
              !.log = IF t.file_edits > 0 THEN Append(@, "write") ELSE @]

\* session.py 193-194: except SessionExit: break
BreakSessionExit(t) == [t EXCEPT !.pc = "done", !.ended = "SessionExit"]

\* the commands Command.create_command knows
CommandNames == {"agent", "clear"}

\* response.data[1:].split(" ")[0]
CommandName(data) == data[2]

\* " ".join(response.data.split(" ")[1:]): what follows the first space
RECURSIVE CommandArguments(_)
CommandArguments(data) ==
    IF data = <<>> THEN <<>>
    ELSE IF Head(data) = " " THEN Tail(data)
    ELSE CommandArguments(Tail(data))

\* shlex.split raises ValueError for a quotation that is not closed
ShlexRaises(arguments) ==
    Len(SelectSeq(arguments, LAMBDA atom : atom = "'")) % 2 = 1

\* faulty variant: a command that cannot be processed is dropped silently
ApplyCommandSilent(t, data) ==
    IF ShlexRaises(CommandArguments(data))
       \/ CommandName(data) \notin CommandNames
    THEN t
    ELSE [t EXCEPT
            !.dispatch = @ + 1,
            !.agent_enabled = IF CommandName(data) = "agent" THEN ~@ ELSE @,
            !.conversation = IF CommandName(data) = "clear" THEN <<>> ELSE @]

\* session_input.py 57-65: the arguments are split, the command is created
\* and applied; the ValueError of shlex.split is caught and reported, and
\* the InvalidCommand made for an unknown name reports itself
ApplyCommand(t, data) ==
    IF ShlexRaises(CommandArguments(data))
    THEN [t EXCEPT !.errors = @ + 1]
    ELSE IF CommandName(data) \notin CommandNames
    THEN [t EXCEPT !.errors = @ + 1, !.dispatch = @ + 1]
    ELSE [t EXCEPT
            !.dispatch = @ + 1,
            !.agent_enabled = IF CommandName(data) = "agent" THEN ~@ ELSE @,
            !.conversation = IF CommandName(data) = "clear" THEN <<>> ELSE @]

\* the client's response reaches collect_user_input, which returns it
InputReturned(t, data) ==
    [t EXCEPT !.prompts = @ + 1,
              !.caller = t.pc,
              !.answer = data,
              !.dispatch = 0,
              !.message = CollectUserInput(data).response]

\* faulty variant: the handler leaves need_user_request as it was
HandleContextSizeInsufficientKeep(t) ==
    LoopTop([t EXCEPT !.aborted = @ + 1])

\* session.py 195-197: except ContextSizeInsufficient
HandleContextSizeInsufficient(t) ==
    LoopTop([t EXCEPT !.need_user_request = TRUE, !.aborted = @ + 1])

\* agent_handler.py 142-158: the commands are run, control stays with the
\* model
RunCommands(t, commands) ==
    [t EXCEPT !.commands = commands,
              !.conversation = Append(@, "system"),
              !.log = @ \o [i \in 1..Len(commands) |-> "run"],
              !.ran = @ + Len(commands),
              !.need_user_request = FALSE]

\* agent_handler.py 127-128, 139-140: nothing to run, back to the user
NoCommands(t, commands) ==
    [t EXCEPT !.commands = commands, !.need_user_request = TRUE]

(***************************************************************************)
(* The context engine: CodeContext (src/mentat/code_context.py), the       *)
(* repository it reads and the calls of get_code_message.  A file's        *)
(* content is modelled by its length in tokens; 0 stands for a file that   *)
(* is not in the repository.                                               *)
(***************************************************************************)
\* the repository's paths, sorted by relative path
Paths == <<"a", "b">>

PathSet == {Paths[i] : i \in 1..Len(Paths)}

\* a file's possible contents
FileContents == {3, 5}

\* the values of max_tokens of the calls
Budgets == {2, 9}

\* the prompts of the calls
Prompts == {"", "pa", "pb"}

\* settings.auto_tokens is None
NoLimit == -1

Max(x, y) == IF x >= y THEN x ELSE y

Min(x, y) == IF x <= y THEN x ELSE y

\* CodeFile.count_tokens at each level
FeatureTokens(f, repo) ==
    CASE f.level = "code" -> repo[f.path] + 1
      [] f.level = "interval" -> 2
      [] f.level = "cmap_full" -> 3
      [] f.level = "cmap" -> 2
      [] OTHER -> 1

\* sum(await count_feature_tokens(features, model))
RECURSIVE SumTokens(_, _)
SumTokens(features, repo) ==
    IF features = <<>> THEN 0
    ELSE FeatureTokens(Head(features), repo) + SumTokens(Tail(features), repo)

\* diff_context.files: the files that differ from the diff target
DiffFiles(c) ==
    IF c.settings.diff = "none" THEN {} ELSE {p \in {"a"} : c.repo[p] # 0}

\* count_tokens("\n".join(code_message)) of the lines before the features
MetadataTokens(c) == IF DiffFiles(c) # {} THEN 2 ELSE 1

\* sorted(..., key=_feature_relative_path): a set of paths in path order
InPathOrder(paths) == SelectSeq(Paths, LAMBDA p : p \in paths)

Included(c) == {p \in PathSet : c.include_files[p] # "none"}

\* code_context.py 203-221
GetIncludeFeatures(c) ==
    LET sorted == InPathOrder(Included(c))
    IN  [i \in 1..Len(sorted) |->
            [path |-> sorted[i],
             level |-> c.include_files[sorted[i]],
             diff |-> c.include_files[sorted[i]] # "interval"
                          /\ sorted[i] \in DiffFiles(c)]]

\* faulty variant: the included files are enumerated again as candidates
AutoCandidatesAll(c) == {p \in PathSet : c.repo[p] # 0}

\* code_context.py 244-251: the files auto selection may add
AutoCandidates(c) == {p \in PathSet : c.repo[p] # 0 /\ p \notin Included(c)}

\* code_context.py 243-258: the candidates at one level
LevelFeatures(c, level) ==
    LET sorted == InPathOrder(AutoCandidates(c))
    IN  [i \in 1..Len(sorted) |->
            [path |-> sorted[i], level |-> level,
             diff |-> sorted[i] \in DiffFiles(c)]]

\* code_context.py 239-262: the first level whose features fit
RECURSIVE FirstFit(_, _, _)
FirstFit(c, levels, max_auto_tokens) ==
    IF levels = <<>> THEN <<>>
    ELSE IF SumTokens(LevelFeatures(c, Head(levels)), c.repo) < max_auto_tokens
    THEN LevelFeatures(c, Head(levels))
    ELSE FirstFit(c, Tail(levels), max_auto_tokens)

\* code_context.py 268: sorted(all_features, key=_feature_relative_path),
\* a stable sort
RECURSIVE SortFeatures(_, _)
SortFeatures(features, i) ==
    IF i > Len(Paths) THEN <<>>
    ELSE SelectSeq(features, LAMBDA f : f.path = Paths[i])
             \o SortFeatures(features, i + 1)

\* get_feature_similarity_scores, sorted by descending score: a prompt is
\* closest to the file it names
ScoreOrder(prompt) == IF prompt = "pb" THEN <<"b", "a">> ELSE <<"a", "b">>

\* code_context.py 291-303: the candidates are upgraded to CODE level in
\* score order while the forecast stays positive
RECURSIVE Upgrade(_, _, _, _, _)
Upgrade(c, order, all_features, max_sim_tokens, sim_tokens) ==
    IF order = <<>> THEN all_features
    ELSE LET p == Head(order)
             found == {i \in 1..Len(all_features) :
                          /\ all_features[i].path = p
                          /\ p \notin Included(c)}
         IN  IF found = {} THEN Upgrade(c, Tail(order), all_features,
                                        max_sim_tokens, sim_tokens)
             ELSE LET i_cmap == CHOOSE i \in found : TRUE
                      code_feature == [all_features[i_cmap] EXCEPT
                                           !.level = "code"]
                      recovered == FeatureTokens(all_features[i_cmap], c.repo)
                      new == FeatureTokens(code_feature, c.repo)
                      forecast == max_sim_tokens - sim_tokens + recovered - new
                  IN  IF forecast > 0
                      THEN Upgrade(c, Tail(order),
                                   [all_features EXCEPT ![i_cmap] = code_feature],
                                   max_sim_tokens, sim_tokens + new - recovered)
                      ELSE Upgrade(c, Tail(order), all_features,
                                   max_sim_tokens, sim_tokens)

\* code_context.py 223-305
GetAutoFeatures(c, prompt, include_features, max_tokens) ==
    LET max_auto_tokens == max_tokens - SumTokens(include_features, c.repo)
        levels == IF c.settings.no_code_map THEN <<"file_name">>
                  ELSE <<"cmap_full", "cmap", "file_name">>
        all_features ==
            SortFeatures(include_features \o FirstFit(c, levels, max_auto_tokens), 1)
        sim == max_tokens - SumTokens(all_features, c.repo)
        max_sim_tokens == IF c.settings.auto_tokens # NoLimit
                          THEN Min(sim, c.settings.auto_tokens) ELSE sim
    IN  IF c.settings.use_embedding /\ max_sim_tokens > 0 /\ prompt # ""
        THEN Upgrade(c, ScoreOrder(prompt), all_features, max_sim_tokens, 0)
        ELSE all_features

\* faulty variant: the warning is sent and the setting is left as it was
SetCodeMapForgetful(c) ==
    IF c.settings.no_code_map \/ c.ctags THEN c
    ELSE [c EXCEPT !.warnings = @ + 1]

\* code_context.py 62-80: set_code_map sends the warning and disables the
\* code map for good when ctags does not work
SetCodeMap(c) ==
    IF c.settings.no_code_map \/ c.ctags THEN c
    ELSE [c EXCEPT !.settings.no_code_map = TRUE, !.warnings = @ + 1]

\* code_context.py 186-197: the active features
ActiveFeatures(c, prompt, max_tokens) ==
    LET features == GetIncludeFeatures(c)
        include_feature_tokens == SumTokens(features, c.repo) - MetadataTokens(c)
        max_auto == Max(0, max_tokens - include_feature_tokens)
        max_user == c.settings.auto_tokens
    IN  IF max_auto = 0 \/ max_user = 0 THEN features
        ELSE GetAutoFeatures(c, prompt, features,
                 IF max_user = NoLimit THEN max_auto ELSE Min(max_auto, max_user))

\* code_context.py 199-201: the message, its metadata lines and the text
\* of each feature
CodeMessage(c) ==
    [metadata |-> MetadataTokens(c),
     features |-> [i \in 1..Len(c.features) |->
                     [path |-> c.features[i].path,
                      level |-> c.features[i].level,
                      diff |-> c.features[i].diff,
                      content |-> IF c.features[i].level = "file_name" THEN 0
                                  ELSE c.repo[c.features[i].path]]]]

\* the token count of a message
MessageTokens(c) == MetadataTokens(c) + SumTokens(c.features, c.repo)

\* code_context.py 133-150
GetCodeMessageChecksum(c, max_tokens) ==
    [features |-> {<<c.features[i].path, c.repo[c.features[i].path]>> :
                       i \in 1..Len(c.features)},
     settings |-> c.settings,
     max_tokens |-> max_tokens,
     include_files |-> c.include_files]

\* the inputs of a computation of the code message
MessageInputs(c, prompt, max_tokens) ==
    [prompt |-> prompt,
     max_tokens |-> max_tokens,
     include_files |-> c.include_files,
     settings |-> c.settings,
     ctags |-> c.ctags,
     repo |-> [p \in PathSet |->
                 IF c.settings.auto_tokens # 0 \/ p \in Included(c)
                 THEN c.repo[p] ELSE 0]]

NoMessage == [metadata |-> 0, features |-> <<>>]

NoChecksum == [features |-> {}, settings |-> "none", max_tokens |-> 0]

\* faulty variant: the auto-selected files are recorded in the include set
ComputeCodeMessageIncluding(c, prompt, max_tokens) ==
    LET c1 == SetCodeMap(c)
        features == ActiveFeatures(c1, prompt, max_tokens)
        c2 == [c1 EXCEPT
                  !.features = features,
                  !.include_files =
                      [p \in PathSet |->
                          IF c1.include_files[p] = "none"
                             /\ \E i \in 1..Len(features) : features[i].path = p
                          THEN "code" ELSE c1.include_files[p]]]
    IN  [c2 EXCEPT !.code_message = CodeMessage(c2),
                   !.cached = TRUE,
                   !.checksum = GetCodeMessageChecksum(c2, max_tokens),
                   !.computed_with = MessageInputs(c2, prompt, max_tokens),
                   !.hit = FALSE]

\* code_context.py 167-201: the message is computed afresh
ComputeCodeMessage(c, prompt, max_tokens) ==
    LET c1 == SetCodeMap(c)
        c2 == [c1 EXCEPT !.features = ActiveFeatures(c1, prompt, max_tokens)]
    IN  [c2 EXCEPT !.code_message = CodeMessage(c2),
                   !.cached = TRUE,
                   !.checksum = GetCodeMessageChecksum(c2, max_tokens),
                   !.computed_with = MessageInputs(c2, prompt, max_tokens),
                   !.hit = FALSE]

InitContext ==
    [include_files |-> [p \in PathSet |-> "none"],
     settings |-> [diff |-> "none", no_code_map |-> FALSE,
                   use_embedding |-> FALSE, auto_tokens |-> NoLimit],
     features |-> <<>>,
     cached |-> FALSE,           \* _code_message is not None
     code_message |-> NoMessage,
     checksum |-> NoChecksum,
     \* the environment
     repo |-> [p \in PathSet |-> IF p = "a" THEN 3 ELSE 5],
     ctags |-> TRUE,             \* check_ctags_disabled finds no fault
     warnings |-> 0,             \* the warnings sent about ctags
     \* history of the run
     calls |-> 0,                \* calls of get_code_message
     changes |-> 0,              \* changes of the inputs
     hit |-> FALSE,              \* the last call returned the cached message
     prompt |-> "",              \* the last call's prompt
     max_tokens |-> 0,           \* the last call's max_tokens
     computed_with |-> <<>>,     \* the inputs of the cached computation
     cleared |-> <<>>,           \* the features the last /clear removed
     op |-> "none",              \* the last include_file or exclude_file
     matched |-> [p \in PathSet |-> "none"],   \* what its path matched
     before |-> [p \in PathSet |-> "none"],    \* the include set before it
     returned |-> {}]            \* the paths it returned

\* get_include_files: the files a path (a file, a directory, a glob)
\* matches, each with the level it is asked at; a file that does not exist
\* is an invalid path
GetIncludeFiles(c, pattern) ==
    [p \in PathSet |-> IF c.repo[p] # 0 THEN pattern[p] ELSE "none"]

\* faulty variant: an entry that is already there is replaced
CodeContextIncludeFileReplacing(c, paths) ==
    [c EXCEPT !.include_files =
                  [p \in PathSet |-> IF paths[p] # "none" THEN paths[p] ELSE @[p]],
              !.op = "include",
              !.matched = paths,
              !.before = c.include_files,
              !.returned = {p \in PathSet : paths[p] # "none"}]

\* code_context.py 307-312: include_file, given what get_include_files found
CodeContextIncludeFile(c, paths) ==
    [c EXCEPT !.include_files =
                  [p \in PathSet |-> IF @[p] = "none" THEN paths[p] ELSE @[p]],
              !.op = "include",
              !.matched = paths,
              !.before = c.include_files,
              !.returned = {p \in PathSet : paths[p] # "none"}]

\* code_context.py 314-324: exclude_file, given what get_include_files found
CodeContextExcludeFile(c, paths) ==
    LET removed_paths == {p \in PathSet : paths[p] # "none"
                                          /\ c.include_files[p] # "none"}
    IN  [c EXCEPT !.include_files =
                      [p \in PathSet |-> IF p \in removed_paths THEN "none"
                                         ELSE @[p]],
                  !.op = "exclude",
                  !.matched = paths,
                  !.before = c.include_files,
                  !.returned = removed_paths]

\* what the user may ask to include or exclude
Patterns == [PathSet -> {"none", "code", "interval"}]

\* code_context.clear_auto_context: the auto-selected features leave the
\* active set, the user's include set stays
ClearAutoContext(c) ==
    [c EXCEPT !.features = SelectSeq(@, LAMBDA f : f.path \in Included(c)),
              !.cleared = SelectSeq(c.features,
                                    LAMBDA f : f.path \notin Included(c))]

\* conversation.clear_messages: the messages after the opening prompts go
ClearMessages(t) ==
    [t EXCEPT !.conversation = <<>>, !.forgotten = Len(t.conversation)]

\* faulty variant: /clear wipes the conversation and nothing else
ClearApplyMessagesOnly(t, c) ==
    [turn |-> [ClearMessages(t) EXCEPT !.log = Append(@, "clear")],
     context |-> c]

\* clear.py 9-21: ClearCommand.apply
ClearApply(t, c) ==
    [turn |-> [ClearMessages(t) EXCEPT !.log = Append(@, "clear")],
     context |-> ClearAutoContext(c)]

\* the conversations a session may have had before a command
PriorHistories ==
    {<<>>, <<"user", "assistant">>,
     <<"user", "assistant", "user", "assistant">>}

(***************************************************************************)
(* The feature selectors (src/mentat/auto_context.py).  A feature is a     *)
(* record; its id is its position in the input list and stands for the     *)
(* identity of the CodeFeature object.                                     *)
(***************************************************************************)
\* CodeMessageLevel, most detailed first: the order of CodeMessageLevel.rank
SelectorLevels == <<"code", "cmap_full", "cmap", "file_name">>

\* CodeFeature.count_tokens: a header line and, at CODE level, the lines of
\* the interval
SelectorTokens(f) ==
    CASE f.level = "code" -> (f.hi - f.lo + 1) + 1
      [] f.level = "cmap_full" -> 3
      [] f.level = "cmap" -> 2
      [] OTHER -> 1

RECURSIVE SumSelected(_)
SumSelected(features) ==
    IF features = <<>> THEN 0
    ELSE SelectorTokens(Head(features)) + SumSelected(Tail(features))

\* the features a caller may pass
CandidateFeatures ==
    {[path |-> "a", lo |-> 1, hi |-> 2, level |-> "code",
      user_included |-> TRUE, diff |-> "none", name |-> "none"],
     [path |-> "a", lo |-> 3, hi |-> 6, level |-> "code",
      user_included |-> FALSE, diff |-> "HEAD", name |-> "f"],
     [path |-> "b", lo |-> 1, hi |-> 4, level |-> "cmap",
      user_included |-> FALSE, diff |-> "none", name |-> "none"]}

\* the path/range references the selector model may answer
CandidateRefs ==
    {[path |-> "a", lo |-> 1, hi |-> 6],
     [path |-> "a", lo |-> 3, hi |-> 4],
     [path |-> "b", lo |-> 5, hi |-> 6],
     [path |-> "z", lo |-> 1, hi |-> 6]}

\* the lists of at most n elements of a set
RECURSIVE ListsOf(_, _)
ListsOf(S, n) ==
    IF n = 0 THEN {<<>>}
    ELSE LET shorter == ListsOf(S, n - 1)
         IN  shorter \cup {Append(l, x) : l \in {s \in shorter : Len(s) = n - 1},
                                          x \in S}

\* the levels argument of select
LevelsArguments == {<<>>, <<"cmap", "file_name">>}

\* sorted(set(levels) | {feature.level}, key=rank)
CandidateLevels(levels, feature) ==
    SelectSeq(SelectorLevels,
              LAMBDA level : level = feature.level
                             \/ \E i \in 1..Len(levels) : levels[i] = level)

\* auto_context.py 63-68: the feature is set to each level in turn and kept
\* at the first that fits; when none fits it stays at the last level tried
RECURSIVE TryLevels(_, _, _)
TryLevels(feature, levels, remaining_tokens) ==
    IF levels = <<>> THEN [fits |-> FALSE, feature |-> feature]
    ELSE LET f == [feature EXCEPT !.level = Head(levels)]
         IN  IF SelectorTokens(f) <= remaining_tokens
             THEN [fits |-> TRUE, feature |-> f]
             ELSE IF Len(levels) = 1 THEN [fits |-> FALSE, feature |-> f]
             ELSE TryLevels(f, Tail(levels), remaining_tokens)

\* faulty variant: the selection stops at the first feature that does not
\* fit
RECURSIVE GreedyStopsAtMisfit(_, _, _, _, _)
GreedyStopsAtMisfit(features, i, remaining_tokens, levels, output) ==
    IF i > Len(features) THEN [features |-> features, output |-> output]
    ELSE LET try == TryLevels(features[i], CandidateLevels(levels, features[i]),
                              remaining_tokens)
             seen == [features EXCEPT ![i] = try.feature]
         IN  IF try.fits
             THEN GreedyStopsAtMisfit(seen, i + 1,
                      remaining_tokens - SelectorTokens(try.feature), levels,
                      Append(output, try.feature))
             ELSE [features |-> seen, output |-> output]

\* auto_context.py 58-70: GreedyFeatureSelector.select from feature i on;
\* the levels it sets are set in the caller's features too
RECURSIVE Greedy(_, _, _, _, _)
Greedy(features, i, remaining_tokens, levels, output) ==
    IF i > Len(features) THEN [features |-> features, output |-> output]
    ELSE LET try == TryLevels(features[i], CandidateLevels(levels, features[i]),
                              remaining_tokens)
             seen == [features EXCEPT ![i] = try.feature]
         IN  IF try.fits
             THEN Greedy(seen, i + 1,
                         remaining_tokens - SelectorTokens(try.feature), levels,
                         Append(output, try.feature))
             ELSE Greedy(seen, i + 1, remaining_tokens, levels, output)

\* the features of a list, numbered
Numbered(features) ==
    [i \in 1..Len(features) |->
        [id |-> i, path |-> features[i].path, lo |-> features[i].lo,
         hi |-> features[i].hi, level |-> features[i].level,
         user_included |-> features[i].user_included,
         diff |-> features[i].diff, name |-> features[i].name]]

\* Interval.intersects
Intersects(f, g) == f.lo <= g.hi /\ g.lo <= f.hi

\* auto_context.py 151-156
MatchingInputs(features, out_feat) ==
    SelectSeq(features,
              LAMBDA in_feat : in_feat.path = out_feat.path
                               /\ Intersects(in_feat, out_feat))

\* the first element of a list with a property, or a default
FirstOr(values, default) == IF values = <<>> THEN default ELSE Head(values)

\* auto_context.py 148, 159-166: CodeFeature(git_root / p) with the
\* metadata of the matching inputs
PostSelected(features, ref, i) ==
    LET matching == MatchingInputs(features, ref)
    IN  [id |-> i, path |-> ref.path, lo |-> ref.lo, hi |-> ref.hi,
         level |-> "code",
         user_included |-> \E k \in 1..Len(matching) : matching[k].user_included,
         diff |-> FirstOr(SelectSeq([k \in 1..Len(matching) |-> matching[k].diff],
                                    LAMBDA d : d # "none"), "none"),
         name |-> FirstOr(SelectSeq([k \in 1..Len(matching) |-> matching[k].name],
                                    LAMBDA n : n # "none"), "none")]

\* faulty variant: a reference without a matching input is accepted
UnmatchedNone(features, refs) == {}

\* auto_context.py 157-158: the references no input feature matches
Unmatched(features, refs) ==
    {i \in 1..Len(refs) : MatchingInputs(features, refs[i]) = <<>>}

\* auto_context.py 93-169: LLMFeatureSelector.select, given the selector
\* model's response (a list of references, or text that is not JSON)
LLMSelect(s, response) ==
    LET preselected == Greedy(s.features, 1, s.preselect_max_tokens, s.levels, <<>>)
        s1 == [s EXCEPT !.features = preselected.features,
                        !.response = response]
    IN  IF ~response.json
        THEN [s1 EXCEPT !.raised = "ValueError"]
        ELSE IF Unmatched(s1.features, response.refs) # {}
        THEN [s1 EXCEPT !.raised = "ValueError"]
        ELSE LET postselected ==
                     [i \in 1..Len(response.refs) |->
                         PostSelected(s1.features, response.refs[i], i)]
             IN  [s1 EXCEPT !.postselected = postselected,
                            !.output = Greedy(postselected, 1, s.max_tokens,
                                              <<>>, <<>>).output]

\* the filter pipeline that calls the selector: a selector parse error makes
\* it fall back to the greedy truncation, any other exception leaves it
DefaultFilter(s) ==
    IF s.raised = "SelectorParseError"
    THEN [s EXCEPT !.raised = "none",
                   !.fallback = TRUE,
                   !.output = Greedy(s.features, 1, s.max_tokens, s.levels,
                                     <<>>).output]
    ELSE s

InitSelection ==
    [pc |-> "args",
     selector |-> "none",          \* the selector that ran
     features |-> <<>>,            \* the features argument
     max_tokens |-> 0,
     levels |-> <<>>,
     preselect_max_tokens |-> 0,   \* the room in the selector model's context
     response |-> [json |-> TRUE, refs |-> <<>>],
     postselected |-> <<>>,
     output |-> <<>>,              \* what select returned
     raised |-> "none",            \* what select raised
     fallback |-> FALSE,           \* the pipeline ran without the LLM selector
     \* history: the arguments as they were passed
     input |-> <<>>]

\* ---- the edit applier and the edit history ----

\* the content of a file; Absent marks a path without a file
Absent == 0

FileTexts == {1, 2}

\* the paths an edit touches
Touched(e) == IF e.kind = "rename" THEN {e.path, e.to} ELSE {e.path}

\* session.py 160-164: the edits of a response that are valid for the
\* working tree: a creation of a file that is absent, a deletion, a
\* replacement of a file that exists, or a rename of it (with or without
\* replacements) to a path that is free
ValidEdits(files) ==
    {e \in [kind : {"create"}, path : PathSet, to : PathSet,
            content : FileTexts] :
        e.to = e.path /\ files[e.path] = Absent}
    \cup {e \in [kind : {"delete"}, path : PathSet, to : PathSet,
                 content : {Absent}] :
            e.to = e.path /\ files[e.path] # Absent}
    \cup {e \in [kind : {"replace"}, path : PathSet, to : PathSet,
                 content : FileTexts] :
            e.to = e.path /\ files[e.path] \notin {Absent, e.content}}
    \cup {e \in [kind : {"rename"}, path : PathSet, to : PathSet,
                 content : FileTexts] :
            e.to # e.path /\ files[e.path] # Absent /\ files[e.to] = Absent}

\* the paths the edits of a list touch
TouchedBy(edits) == UNION {Touched(edits[i]) : i \in 1..Len(edits)}

\* the lists of at most n valid edits, no two on the same path
RECURSIVE FileEditLists(_, _)
FileEditLists(files, n) ==
    IF n = 0 THEN {<<>>}
    ELSE LET shorter == FileEditLists(files, n - 1)
         IN  shorter
             \cup UNION {{Append(l, e) :
                            e \in {v \in ValidEdits(files) :
                                      Touched(v) \cap TouchedBy(l) = {}}} :
                         l \in {s \in shorter : Len(s) = n - 1}}

\* the applier writes one edit: creation, deletion, rename (the source path
\* is reassigned, then the replacements go to the new path), replacement
ApplyEdit(files, e) ==
    [p \in PathSet |->
        IF p = e.to THEN e.content
        ELSE IF p = e.path THEN Absent
        ELSE files[p]]

\* the undo snapshot of one edit: the prior content, or the was-absent
\* marker, of each path it touches
Snapshot(files, e) == [edit |-> e, prior |-> [p \in Touched(e) |-> files[p]]]

\* the snapshot is put back
RevertEdit(files, entry) ==
    [p \in PathSet |->
        IF p \in DOMAIN entry.prior THEN entry.prior[p] ELSE files[p]]

\* the edits of a list are applied in order and their snapshots collected
RECURSIVE ApplyEdits(_, _, _)
ApplyEdits(files, edits, entries) ==
    IF edits = <<>> THEN [files |-> files, entries |-> entries]
    ELSE ApplyEdits(ApplyEdit(files, Head(edits)), Tail(edits),
                    Append(entries, Snapshot(files, Head(edits))))

\* the entries of a frame are reverted last first
RECURSIVE RevertFrame(_, _)
RevertFrame(files, frame) ==
    IF frame = <<>> THEN files
    ELSE RevertFrame(RevertEdit(files, frame[Len(frame)]),
                     SubSeq(frame, 1, Len(frame) - 1))

\* EditHistory.push_edits: the edits collected so far become one frame
PushEdits(t) ==
    IF t.cur_edits = <<>> THEN t
    ELSE [t EXCEPT !.edits = Append(@, t.cur_edits), !.cur_edits = <<>>]

\* /undo: one frame is popped and reverted
HistoryUndo(t) ==
    IF t.edits = <<>> THEN t
    ELSE [t EXCEPT !.files = RevertFrame(@, t.edits[Len(t.edits)]),
                   !.edits = SubSeq(@, 1, Len(@) - 1)]

\* /undo-all: the frames pushed since the last user message are popped
RECURSIVE HistoryUndoAll(_)
HistoryUndoAll(t) ==
    IF Len(t.edits) <= t.boundary THEN t
    ELSE HistoryUndoAll(HistoryUndo(t))

\* faulty variant: agent mode leaves what was applied out of the history
BeforeUserRequestNoPush(t) == [t EXCEPT !.pc = "prompt"]

\* session.py 146-151: before the user is asked, agent mode pushes what was
\* applied since the last input as one frame
BeforeUserRequest(t) ==
    [(IF t.agent_enabled THEN PushEdits(t) ELSE t) EXCEPT !.pc = "prompt"]

\* code_file_manager.write_changes_to_files: the edits are applied and
\* recorded; outside agent mode the applier pushes them as a frame itself
WriteChangesToFiles(t, file_edits) ==
    LET done == ApplyEdits(t.files, file_edits, <<>>)
        t1 == [t EXCEPT !.files = done.files,
                        !.cur_edits = @ \o done.entries,
                        !.before = t.files,
                        !.since = IF t.cur_edits = <<>> THEN t.files ELSE @,
                        !.last = "write",
                        !.writes = @ + 1]
    IN  IF t.agent_enabled THEN t1 ELSE PushEdits(t1)

InitTree ==
    [pc |-> "prompt",             \* "prompt": the user is asked; "turn": the model is
     files |-> [p \in PathSet |-> Absent],
     edits |-> <<>>,              \* EditHistory.edits, the stack of frames
     cur_edits |-> <<>>,          \* EditHistory.cur_edits, applied and not pushed
     agent_enabled |-> FALSE,
     boundary |-> 0,              \* the frames pushed before the last user message
     before |-> [p \in PathSet |-> Absent],  \* the tree before the last application
     since |-> [p \in PathSet |-> Absent],   \* the tree before the edits of the
                                  \* newest frame, pushed or still collected
     last |-> "none",             \* the last operation on the tree
     immediate |-> FALSE,         \* the last undo came right after an application
     writes |-> 0,
     pending |-> <<>>,            \* the edits write_changes_to_files is applying
     in_flight |-> {},            \* the operations on the tree that have begun
                                  \* and not ended
     completion_request |-> FALSE] \* a completion request waits to be served

(***************************************************************************)
(* The agent handler.                                                      *)
(***************************************************************************)
\* the paths the model may name in its answer; "c" does not exist
AnswerPaths == {"a", "b", "c"}

\* the model's answers to the file selection prompt, as lists of paths
FileAnswers ==
    {<<>>, <<"a">>, <<"b">>, <<"c">>, <<"a", "b">>, <<"b", "a">>, <<"c", "a">>}

\* agent_handler.py 58-60: the paths of the answer that exist
ExistingPaths(content) == SelectSeq(content, LAMBDA path : path \in PathSet)

InitAgent ==
    [agent_enabled |-> FALSE,     \* _agent_enabled
     agent_file_message |-> <<>>, \* the memo: the files read, in order
     transcript |-> <<>>,         \* the answers added to the transcript
     \* history of the run
     completed |-> FALSE,         \* enable_agent_mode ran to its end after
                                  \* the last disable_agent_mode
     last |-> "none",             \* how the last call ended
     calls |-> 0]                 \* calls of enable_agent_mode

\* agent_handler.py 38-39
DisableAgentMode(a) ==
    [a EXCEPT !.agent_enabled = FALSE, !.completed = FALSE, !.last = "disabled"]

\* faulty variant: the handler is enabled before the model is called
EnableAgentModeEarly(a, raises, content, unreadable) ==
    IF raises
    THEN [a EXCEPT !.agent_enabled = TRUE, !.last = "call failed",
                   !.calls = @ + 1]
    ELSE [a EXCEPT !.agent_enabled = TRUE,
                   !.agent_file_message = ExistingPaths(content),
                   !.transcript = Append(@, content),
                   !.completed = TRUE, !.last = "enabled", !.calls = @ + 1]

\* agent_handler.py 41-80: enable_agent_mode.  raises: call_llm_api raises
\* (line 56); content is the model's answer otherwise; unreadable is a
\* path whose read_file raises (line 63), "none" when every file is read
EnableAgentMode(a, raises, content, unreadable) ==
    IF raises
    THEN [a EXCEPT !.last = "call failed", !.calls = @ + 1]
    ELSE LET paths == ExistingPaths(content)
             stop == {i \in 1..Len(paths) : paths[i] = unreadable}
         IN  IF stop # {}
             THEN [a EXCEPT
                     !.agent_file_message =
                         SubSeq(paths, 1, (CHOOSE i \in stop :
                                              \A j \in stop : i <= j) - 1),
                     !.last = "read failed", !.calls = @ + 1]
             ELSE [a EXCEPT !.agent_file_message = paths,
                            !.transcript = Append(@, content),
                            !.agent_enabled = TRUE,
                            !.completed = TRUE,
                            !.last = "enabled", !.calls = @ + 1]

(***************************************************************************)
(* The legacy loop of app.py and its feedback round.                       *)
(***************************************************************************)
\* what the user answers to "Apply these changes? 'Y/n/i' or provide
\* feedback"
ApplyAnswers ==
    {<<"y">>, <<"Y">>, <<>>, <<"n">>, <<"N">>, <<"i">>, <<"I">>, <<" ", "y">>,
     <<"fix", " ", "it">>}

InitApp ==
    [pc |-> "request",            \* "request", "model", "feedback"
     need_user_request |-> TRUE,
     code_changes |-> 0,          \* len(code_changes) of the last response
     responses |-> 0,             \* model responses received
     backups |-> 0,               \* calls of backup_files
     \* history of the feedback round
     asked |-> FALSE,             \* the last response had a feedback round
     user_response |-> <<>>,
     steps |-> <<>>,              \* "backup" and "write", in order
     written |-> {}]              \* the changes written, by index

\* app.py 167-169, 208-212: backup_files, then all the changes are kept
BackupAndKeepAll(a) ==
    [a EXCEPT !.steps = Append(@, "backup"),
              !.backups = @ + 1,
              !.written = 1..a.code_changes]

\* app.py 193-194: a selection that is not empty is written
WriteKept(a) ==
    IF a.written # {} THEN [a EXCEPT !.steps = Append(@, "write")] ELSE a

\* app.py 151-205: get_user_feedback_on_changes, where kept holds the
\* changes the user keeps when asked one by one (user_filter_changes)
GetUserFeedbackOnChanges(a, user_response, kept) ==
    LET a0 == [a EXCEPT !.asked = TRUE,
                        !.user_response = user_response,
                        !.steps = <<>>,
                        !.written = {},
                        !.need_user_request = TRUE]
        lower == Lower(user_response)
        a1 == CASE lower \in {<<"y">>, <<>>} -> BackupAndKeepAll(a0)
                [] lower = <<"n">> -> a0
                [] lower = <<"i">> -> [a0 EXCEPT !.written = kept]
                [] OTHER -> [a0 EXCEPT !.need_user_request = FALSE]
    IN  WriteKept(a1)

(***************************************************************************)
(* The parser's actions.                                                   *)
(***************************************************************************)
ParserInit ==
    /\ text \in Texts
    /\ pos = 0
    /\ shutdown = FALSE
    /\ parser = InitFrame
    /\ app = InitApp
    /\ agent = InitAgent
    /\ session = InitSession
    /\ client = InitClient
    /\ stream = InitStream
    /\ turn = InitTurn
    /\ context = InitContext
    /\ selection = InitSelection
    /\ tree = InitTree

\* async for chunk in response, the interrupt not set: the chunk is parsed
ParseChunk ==
    /\ parser.pc = "loop"
    /\ ~shutdown
    /\ \E k \in 1..MaxChunk :
          /\ pos + k <= Len(text)
          /\ parser' = ProcessChunk(parser, SubSeq(text, pos + 1, pos + k))
          /\ pos' = pos + k
    /\ UNCHANGED <<text, shutdown, session, client, stream, turn, engineVars>>

\* a chunk arrives after shutdown_handler ran: the loop breaks
Interrupted ==
    /\ parser.pc = "loop"
    /\ shutdown
    /\ pos < Len(text)
    /\ parser' = InterruptReturn(parser)
    /\ UNCHANGED <<text, pos, shutdown, session, client, stream, turn, engineVars>>

\* the response is exhausted: the loop's else branch
StreamEnd ==
    /\ parser.pc = "loop"
    /\ pos = Len(text)
    /\ parser' = StreamEndReturn(parser)
    /\ UNCHANGED <<text, pos, shutdown, session, client, stream, turn, engineVars>>

\* SIGINT while the response is parsed
ShutdownHandler ==
    /\ parser.pc = "loop"
    /\ ~shutdown
    /\ shutdown' = TRUE
    /\ UNCHANGED <<text, pos, parser, session, client, stream, turn, engineVars>>

ParserNext == ParseChunk \/ Interrupted \/ StreamEnd \/ ShutdownHandler

ParserSpec == ParserInit /\ [][ParserNext]_vars

(***************************************************************************)
(* The kernel's actions.  The main task is created first and runs first    *)
(* (asyncio runs ready tasks in creation order), so every other task acts  *)
(* after StartMain.                                                        *)
(***************************************************************************)
KernelInit ==
    /\ text = <<>>
    /\ pos = 0
    /\ shutdown = FALSE
    /\ parser = InitFrame
    /\ app = InitApp
    /\ agent = InitAgent
    /\ session = InitSession
    /\ client = InitClient
    /\ stream = InitStream
    /\ turn = InitTurn
    /\ context = InitContext
    /\ selection = InitSelection
    /\ tree = InitTree

\* run_main -> _main as far as the first await: collect_input_with_commands
\* publishes an input request and waits for its response
StartMain ==
    /\ session.pc = "start"
    /\ session' = [session EXCEPT !.pc = "await_input"]
    /\ stream' = SendInputRequest(stream)
    /\ UNCHANGED <<parserVars, turn, engineVars, client>>

\* the response is "q" once stripped: collect_user_input raises SessionExit,
\* the loop breaks and _stop runs
MainSessionExit ==
    /\ session.pc = "await_input"
    /\ ~session.must_cancel
    /\ stream.responses[stream.input_request] # <<>>
    /\ StripInput(Head(stream.responses[stream.input_request])) = "q"
    /\ session' = LoopEnds(session, "SessionExit")
    /\ UNCHANGED <<parserVars, turn, engineVars, client, stream>>

\* the response is a command (applied, then input is collected again) or is
\* empty (continue): the next input request is published
MainNextInput ==
    /\ session.pc = "await_input"
    /\ ~session.must_cancel
    /\ stream.responses[stream.input_request] # <<>>
    /\ \/ IsCommand(Head(stream.responses[stream.input_request]))
       \/ StripInput(Head(stream.responses[stream.input_request])) = ""
    /\ stream.input_request < MaxRequests
    /\ stream' = SendInputRequest(stream)
    /\ UNCHANGED <<parserVars, turn, engineVars, client, session>>

\* the response is a command whose apply raises something other than
\* ValueError: nothing in collect_input_with_commands or _main catches it
CommandRaises ==
    /\ session.pc = "await_input"
    /\ ~session.must_cancel
    /\ stream.responses[stream.input_request] # <<>>
    /\ IsCommand(Head(stream.responses[stream.input_request]))
    /\ \E e \in {"MentatError", "UserError", "Exception"} :
          session' = LoopEnds(session, e)
    /\ UNCHANGED <<parserVars, turn, engineVars, client, stream>>

\* the response is a request for the model: get_model_response starts and the
\* interrupt lock is held while it runs
MainStartTurn ==
    /\ session.pc = "await_input"
    /\ ~session.must_cancel
    /\ stream.responses[stream.input_request] # <<>>
    /\ ~IsCommand(Head(stream.responses[stream.input_request]))
    /\ StripInput(Head(stream.responses[stream.input_request])) \notin {"q", ""}
    /\ session' = [session EXCEPT !.pc = "respond"]
    /\ stream' = [stream EXCEPT !.interrupt_lock = TRUE]
    /\ UNCHANGED <<parserVars, turn, engineVars, client>>

\* the turn completes: edits_complete is published and the loop asks for input
TurnComplete ==
    /\ session.pc = "respond"
    /\ ~session.must_cancel
    /\ stream.input_request < MaxRequests
    /\ session' = [session EXCEPT !.pc = "await_input"]
    /\ stream' = SendInputRequest(
                     [stream EXCEPT !.interrupt_lock = FALSE,
                                    !.edits_complete = @ + 1])
    /\ UNCHANGED <<parserVars, turn, engineVars, client>>

\* except ContextSizeInsufficient: need_user_request = True; continue
ContextSizeInsufficient ==
    /\ session.pc = "respond"
    /\ ~session.must_cancel
    /\ stream.input_request < MaxRequests
    /\ session' = [session EXCEPT !.pc = "await_input"]
    /\ stream' = SendInputRequest([stream EXCEPT !.interrupt_lock = FALSE])
    /\ UNCHANGED <<parserVars, turn, engineVars, client>>

\* except (APITimeoutError, RateLimitError, BadRequestError): break
ApiError ==
    /\ session.pc = "respond"
    /\ ~session.must_cancel
    /\ session' = LoopEnds(session, "ApiError")
    /\ stream' = [stream EXCEPT !.interrupt_lock = FALSE]
    /\ UNCHANGED <<parserVars, turn, engineVars, client>>

\* any other exception leaves _main and is handled by run_main
UnhandledException ==
    /\ session.pc = "respond"
    /\ ~session.must_cancel
    /\ \E e \in {"MentatError", "UserError", "Exception"} :
          session' = LoopEnds(session, e)
    /\ stream' = [stream EXCEPT !.interrupt_lock = FALSE]
    /\ UNCHANGED <<parserVars, turn, engineVars, client>>

\* the main task, cancelled, runs again: CancelledError at its await
MainCancelled ==
    /\ session.pc \in {"await_input", "respond"}
    /\ session.must_cancel
    /\ session' = LoopEnds(session, "CancelledError")
    /\ stream' = [stream EXCEPT !.interrupt_lock = FALSE]
    /\ UNCHANGED <<parserVars, turn, engineVars, client>>

\* _stop after its await of the main task: the await of the cancelled task
\* itself raises CancelledError, which _stop swallows; client_exit follows
StopResume ==
    /\ session.pc = "stopping"
    /\ session' = AfterMainTask(session)
    /\ stream' = SendClientExit(stream)
    /\ UNCHANGED <<parserVars, turn, engineVars, client>>

\* stream.join() returns once the bus has drained; stream.stop() follows
StreamJoined ==
    /\ session.pc = "joining"
    /\ ~session.must_cancel
    /\ session' = AfterJoin(session)
    /\ stream' = [stream EXCEPT !.stopped = TRUE]
    /\ UNCHANGED <<parserVars, turn, engineVars, client>>

\* the main task is cancelled while it awaits the join (the teardown of
\* asyncio.run after exit(0)): CancelledError leaves _stop
JoinCancelled ==
    /\ session.pc = "joining"
    /\ session.must_cancel
    /\ session' = [session EXCEPT !.pc = "done", !.must_cancel = FALSE]
    /\ UNCHANGED <<parserVars, turn, engineVars, client, stream>>

\* listen_for_session_exit: a message on session_exit cancels the main task
SessionExitListener ==
    /\ session.pc # "start"
    /\ session.exit_listener = "waiting"
    /\ stream.session_exit > 0
    /\ session' = [session EXCEPT !.exit_listener = "done",
                                  !.must_cancel = (session.pc # "done")]
    /\ UNCHANGED <<parserVars, turn, engineVars, client, stream>>

\* _handle_input_requests: an input request is received and the prompt opens
HandlerRecv ==
    /\ session.pc # "start"
    /\ client.handler = "recv"
    /\ client.request < stream.input_request
    /\ client' = [client EXCEPT !.handler = "prompt", !.request = @ + 1]
    /\ UNCHANGED <<parserVars, turn, engineVars, session, stream>>

\* the user types "q" at the prompt: exit is requested and the handler returns
UserQuits ==
    /\ client.handler = "prompt"
    /\ client' = [client EXCEPT !.typed[client.request] = "q",
                                !.should_exit = TRUE,
                                !.handler = "done"]
    /\ UNCHANGED <<parserVars, turn, engineVars, session, stream>>

\* the user types anything else: it is published as the request's response
UserResponds ==
    /\ client.handler = "prompt"
    /\ \E d \in Inputs \ {"q"} :
          /\ client' = [client EXCEPT !.typed[client.request] = d,
                                      !.handler = "recv"]
          /\ stream' = InputResponse(stream, client.request, d)
    /\ UNCHANGED <<parserVars, turn, engineVars, session>>

\* faulty variant: the listener ends without publishing session_exit
ShouldExitListenerSilent ==
    /\ session.pc # "start"
    /\ client.exit_sender = "waiting"
    /\ client.should_exit
    /\ client' = [client EXCEPT !.exit_sender = "done"]
    /\ UNCHANGED <<parserVars, turn, engineVars, session, stream>>

\* _listen_for_should_exit: once exit is requested, session_exit is published
ShouldExitListener ==
    /\ session.pc # "start"
    /\ client.exit_sender = "waiting"
    /\ client.should_exit
    /\ client' = [client EXCEPT !.exit_sender = "done"]
    /\ stream' = [stream EXCEPT !.session_exit = @ + 1]
    /\ UNCHANGED <<parserVars, turn, engineVars, session>>

\* _send_session_stream_interrupt, the task _handle_sig_int created
SendInterrupt ==
    /\ session.pc # "start"
    /\ client.interrupt_tasks > 0
    /\ client' = [client EXCEPT !.interrupt_tasks = @ - 1]
    /\ stream' = [stream EXCEPT !.interrupt = @ + 1]
    /\ UNCHANGED <<parserVars, turn, engineVars, session>>

\* SIGINT while the interrupt lock is held: a task is created to publish on
\* the interrupt channel
SigIntInterrupt ==
    /\ client.sigints < MaxSigInts
    /\ session.pc # "unassigned"
    /\ ~client.force_exited /\ ~client.stopped
    /\ HandleSigInt(stream.interrupt_lock, client.should_exit) = "interrupt"
    /\ client' = [client EXCEPT !.sigints = @ + 1, !.interrupt_tasks = @ + 1]
    /\ UNCHANGED <<parserVars, turn, engineVars, session, stream>>

\* SIGINT without the lock, the first: exit is requested
SigIntShouldExit ==
    /\ client.sigints < MaxSigInts
    /\ session.pc # "unassigned"
    /\ ~client.force_exited /\ ~client.stopped
    /\ HandleSigInt(stream.interrupt_lock, client.should_exit) = "should_exit"
    /\ client' = [client EXCEPT !.sigints = @ + 1, !.should_exit = TRUE]
    /\ UNCHANGED <<parserVars, turn, engineVars, session, stream>>

\* SIGINT without the lock when exit was already requested: exit(0).  The
\* SystemExit ends asyncio.run, which cancels every task that is left and
\* runs the loop until they are done.
SigIntForceExit ==
    /\ client.sigints < MaxSigInts
    /\ session.pc # "unassigned"
    /\ ~client.force_exited /\ ~client.stopped
    /\ HandleSigInt(stream.interrupt_lock, client.should_exit) = "force_exit"
    /\ client' = [CancelClientTasks(client) EXCEPT !.sigints = @ + 1,
                                                   !.force_exited = TRUE,
                                                   !.shutdown = Cancel(@)]
    /\ session' = [session EXCEPT
                      !.exit_listener = Cancel(@),
                      !.must_cancel = (session.pc \notin {"start", "done"})]
    /\ UNCHANGED <<parserVars, turn, engineVars, stream>>

\* _listen_for_client_exit: client_exit received, _shutdown is scheduled
ClientExitListener ==
    /\ client.exit_listener = "waiting"
    /\ stream.client_exit > 0
    /\ client' = [client EXCEPT !.exit_listener = "done", !.shutdown = "pending"]
    /\ UNCHANGED <<parserVars, turn, engineVars, session, stream>>

\* _shutdown: the background tasks are cancelled and _stopped is set
Shutdown ==
    /\ client.shutdown = "pending"
    /\ client' = [CancelClientTasks(client) EXCEPT !.shutdown = "done",
                                                   !.stopped = TRUE]
    /\ UNCHANGED <<parserVars, turn, engineVars, session, stream>>

KernelNext ==
    \/ StartMain
    \/ MainSessionExit
    \/ MainNextInput
    \/ CommandRaises
    \/ MainStartTurn
    \/ TurnComplete
    \/ ContextSizeInsufficient
    \/ ApiError
    \/ UnhandledException
    \/ MainCancelled
    \/ StopResume
    \/ StreamJoined
    \/ JoinCancelled
    \/ SessionExitListener
    \/ HandlerRecv
    \/ UserQuits
    \/ UserResponds
    \/ ShouldExitListener
    \/ SendInterrupt
    \/ SigIntInterrupt
    \/ SigIntShouldExit
    \/ SigIntForceExit
    \/ ClientExitListener
    \/ Shutdown

KernelSpec == KernelInit /\ [][KernelNext]_vars

(***************************************************************************)
(* The start of the client: _run installs the signal handler and then      *)
(* builds the session; the kernel's steps follow.                          *)
(***************************************************************************)
StartupInit ==
    /\ text = <<>>
    /\ pos = 0
    /\ shutdown = FALSE
    /\ parser = InitFrame
    /\ app = InitApp
    /\ agent = InitAgent
    /\ session = [InitSession EXCEPT !.pc = "unassigned"]
    /\ client = InitClient
    /\ stream = InitStream
    /\ turn = InitTurn
    /\ context = InitContext
    /\ selection = InitSelection
    /\ tree = InitTree

\* client.py 139-147: the session is built, assigned and started
RunAssignsSession ==
    /\ session.pc = "unassigned"
    /\ client.error = "none"
    /\ session' = [session EXCEPT !.pc = "start"]
    /\ UNCHANGED <<parserVars, turn, engineVars, client, stream>>

\* client.py 117-121: SIGINT after _init_signal_handlers (line 137) and
\* before self.session is assigned (line 139).  __init__ (25-43) gives the
\* client no session attribute, so "not self.session" raises
\* AttributeError in the handler, and the error ends _run
SigIntStartingUp ==
    /\ client.sigints < MaxSigInts
    /\ session.pc = "unassigned"
    /\ client.error = "none"
    /\ client' = [client EXCEPT !.sigints = @ + 1, !.error = "AttributeError"]
    /\ UNCHANGED <<parserVars, turn, engineVars, session, stream>>

StartupNext ==
    \/ RunAssignsSession
    \/ SigIntStartingUp
    \/ KernelNext

StartupSpec == StartupInit /\ [][StartupNext]_vars

\* the event loop runs every task that is ready: the steps of the session's
\* tasks are taken once they stay enabled; nobody is obliged to type or to
\* send a signal
KernelFairSpec ==
    /\ KernelSpec
    /\ WF_vars(StartMain)
    /\ WF_vars(MainCancelled)
    /\ WF_vars(StopResume)
    /\ WF_vars(StreamJoined)
    /\ WF_vars(JoinCancelled)
    /\ WF_vars(SessionExitListener)

\* the same for the tasks of the client that wait for an event of the
\* program; typing and signals stay the user's choice
ShutdownFairSpec ==
    /\ KernelFairSpec
    /\ WF_vars(ShouldExitListener)
    /\ WF_vars(ClientExitListener)
    /\ WF_vars(Shutdown)

(***************************************************************************)
(* The turn loop's actions: each is a run of the main task from one await  *)
(* to the next.                                                            *)
(***************************************************************************)
TurnInit ==
    /\ text = <<>>
    /\ pos = 0
    /\ shutdown = FALSE
    /\ parser = InitFrame
    /\ app = InitApp
    /\ agent = InitAgent
    /\ session = InitSession
    /\ client = InitClient
    /\ stream = InitStream
    /\ turn = InitTurn
    /\ context = InitContext
    /\ selection = InitSelection
    /\ tree = InitTree

\* _main as far as its first await
TurnStart ==
    /\ turn.pc = "start"
    /\ turn' = LoopTop(turn)
    /\ UNCHANGED <<parserVars, kernelVars, engineVars>>

\* an input request is answered by "q" once stripped: collect_user_input
\* raises SessionExit, which ends the loop
TurnSessionExit ==
    /\ turn.prompts < MaxPrompts
    /\ \E data \in AnswersAt(turn.pc) :
          /\ CollectUserInput(data).raised
          /\ turn' = BreakSessionExit([turn EXCEPT !.prompts = @ + 1,
                                                   !.caller = turn.pc,
                                                   !.answer = data])
    /\ UNCHANGED <<parserVars, kernelVars, engineVars>>

\* collect_input_with_commands gets a command, applies it and asks again
TurnCommand ==
    /\ turn.pc = "input"
    /\ turn.prompts < MaxPrompts
    /\ \E data \in AnswersAt("input") :
          /\ ~CollectUserInput(data).raised
          /\ StartsWithSlash(data)
          /\ turn' = ApplyCommand(InputReturned(turn, data), data)
    /\ UNCHANGED <<parserVars, kernelVars, engineVars>>

\* the user's message is empty once stripped: continue
TurnEmptyInput ==
    /\ turn.pc = "input"
    /\ turn.prompts < MaxPrompts
    /\ \E data \in AnswersAt("input") :
          /\ ~CollectUserInput(data).raised
          /\ ~StartsWithSlash(data)
          /\ StripWs(data) = <<>>
          /\ turn' = LoopTop([InputReturned(turn, data) EXCEPT
                                    !.log = Append(@, "empty")])
    /\ UNCHANGED <<parserVars, kernelVars, engineVars>>

\* the user's message becomes a user message of the conversation and the
\* model is asked for its response
TurnRequest ==
    /\ turn.pc = "input"
    /\ turn.prompts < MaxPrompts
    /\ \E data \in AnswersAt("input") :
          /\ ~CollectUserInput(data).raised
          /\ ~StartsWithSlash(data)
          /\ StripWs(data) # <<>>
          /\ turn' = [InputReturned(turn, data) EXCEPT
                            !.conversation = Append(@, "user"),
                            !.log = Append(@, "input"),
                            !.pc = "model"]
    /\ UNCHANGED <<parserVars, kernelVars, engineVars>>

\* faulty variant: the agent chooses its commands after an interrupted
\* response too
AgentFollowUpAlways(t) == [t EXCEPT !.pc = "agent_llm"]

\* session.py 185-189, after the edits were written in agent mode
AgentFollowUp(t) ==
    IF t.interrupted
    THEN EndTurn([t EXCEPT !.need_user_request = TRUE])
    ELSE [t EXCEPT !.pc = "agent_llm"]

\* get_model_response returns: session.py 159-192 as far as the next await
ModelResponse ==
    /\ turn.pc = "model"
    /\ turn.responses < MaxResponses
    /\ \E edits \in EditLists(MaxEdits), interrupted \in BOOLEAN :
          LET valid == Len(SelectSeq(edits, LAMBDA v : v))
              t == [turn EXCEPT !.responses = @ + 1,
                                !.conversation = Append(@, "assistant"),
                                !.file_edits = valid,
                                !.produced = valid,
                                !.interrupted = interrupted,
                                !.declined = FALSE]
          IN  turn' = IF valid > 0
                      THEN IF ~t.agent_enabled
                           THEN [t EXCEPT !.pc = "feedback"]
                           ELSE AgentFollowUp(WriteChanges(t))
                      ELSE EndTurn([t EXCEPT !.need_user_request = TRUE])
    /\ UNCHANGED <<parserVars, kernelVars, engineVars>>

\* get_model_response raises ContextSizeInsufficient
ModelContextSizeInsufficient ==
    /\ turn.pc = "model"
    /\ turn' = HandleContextSizeInsufficient(turn)
    /\ UNCHANGED <<parserVars, kernelVars, engineVars>>

\* get_model_response raises APITimeoutError, RateLimitError or
\* BadRequestError: session.py 198-200
ModelApiError ==
    /\ turn.pc = "model"
    /\ turn' = [turn EXCEPT !.pc = "done", !.ended = "ApiError"]
    /\ UNCHANGED <<parserVars, kernelVars, engineVars>>

\* get_user_feedback_on_edits returns the edits to apply and whether the
\* user is asked next: session.py 166-192
FeedbackAnswer ==
    /\ turn.pc = "feedback"
    /\ turn.prompts < MaxPrompts
    /\ \E data \in AnswersAt("feedback"), kept \in 0..turn.file_edits :
          /\ ~CollectUserInput(data).raised
          /\ data # <<"i">> => kept = 0
          /\ LET known == data \in {<<"y">>, <<"n">>, <<"i">>}
                 t == [InputReturned(turn, data) EXCEPT
                        !.file_edits = IF data = <<"y">> THEN @
                                       ELSE IF data = <<"i">> THEN kept ELSE 0,
                        !.need_user_request = known,
                        !.conversation = IF known THEN @
                                         ELSE Append(@, "user")]
             IN  turn' = EndTurn(WriteChanges(t))
    /\ UNCHANGED <<parserVars, kernelVars, engineVars>>

\* _determine_commands gets the model's answer: agent_handler.py 110-134
AgentCommands ==
    /\ turn.pc = "agent_llm"
    /\ \E content \in CommandContents :
          LET commands == SplitNL(StripWs(content), <<>>)
              t == [turn EXCEPT !.content = content,
                                !.conversation = Append(@, "assistant")]
          IN  turn' = IF commands = <<>>
                      THEN EndTurn(NoCommands(t, commands))
                      ELSE [t EXCEPT !.commands = commands,
                                     !.pc = "agent_yes_no"]
    /\ UNCHANGED <<parserVars, kernelVars, engineVars>>

\* _determine_commands catches BadRequestError and returns no command:
\* agent_handler.py 106-108, 127-128
AgentBadRequest ==
    /\ turn.pc = "agent_llm"
    /\ turn' = EndTurn(NoCommands([turn EXCEPT !.content = <<>>], <<>>))
    /\ UNCHANGED <<parserVars, kernelVars, engineVars>>

\* ask_yes_no(default_yes=True) gets an answer: session_input.py 38-49,
\* agent_handler.py 135-158
AgentYesNo ==
    /\ turn.pc = "agent_yes_no"
    /\ turn.prompts < MaxPrompts
    /\ \E data \in AnswersAt("agent_yes_no") :
          /\ ~CollectUserInput(data).raised
          /\ LET content == Lower(StripWs(data))
                 t == InputReturned(turn, data)
             IN  turn' = IF content \notin {<<"y">>, <<"n">>, <<>>}
                         THEN t
                         ELSE IF content = <<"y">> \/ content # <<"n">>
                         THEN EndTurn(RunCommands(t, t.commands))
                         ELSE [t EXCEPT !.declined = TRUE,
                                        !.pc = "agent_input"]
    /\ UNCHANGED <<parserVars, kernelVars, engineVars>>

\* the user answers the request for other commands: agent_handler.py
\* 137-158
AgentReplacement ==
    /\ turn.pc = "agent_input"
    /\ turn.prompts < MaxPrompts
    /\ \E data \in AnswersAt("agent_input") :
          /\ ~CollectUserInput(data).raised
          /\ LET commands == SplitLines(StripWs(data))
                 t == InputReturned(turn, data)
             IN  turn' = IF commands = <<>>
                         THEN EndTurn(NoCommands(t, commands))
                         ELSE EndTurn(RunCommands(t, commands))
    /\ UNCHANGED <<parserVars, kernelVars, engineVars>>

TurnNext ==
    \/ TurnStart
    \/ TurnSessionExit
    \/ TurnCommand
    \/ TurnEmptyInput
    \/ TurnRequest
    \/ ModelResponse
    \/ ModelContextSizeInsufficient
    \/ ModelApiError
    \/ FeedbackAnswer
    \/ AgentCommands
    \/ AgentBadRequest
    \/ AgentYesNo
    \/ AgentReplacement

TurnSpec == TurnInit /\ [][TurnNext]_vars

(***************************************************************************)
(* The context engine's actions.                                           *)
(***************************************************************************)
ContextInit ==
    /\ text = <<>>
    /\ pos = 0
    /\ shutdown = FALSE
    /\ parser = InitFrame
    /\ app = InitApp
    /\ agent = InitAgent
    /\ session = InitSession
    /\ client = InitClient
    /\ stream = InitStream
    /\ turn = InitTurn
    /\ \E ctags \in BOOLEAN : context = [InitContext EXCEPT !.ctags = ctags]
    /\ selection = InitSelection
    /\ tree = InitTree

\* code_context.py 307-312: /include
IncludeFile ==
    /\ context.changes < MaxChanges
    /\ \E p \in PathSet, level \in {"code", "interval"} :
          /\ context.repo[p] # 0
          /\ context.include_files[p] = "none"
          /\ context' = [context EXCEPT !.include_files[p] = level,
                                        !.changes = @ + 1]
    /\ UNCHANGED <<parserVars, kernelVars, turn, selection, tree, app, agent>>

\* code_context.py 314-324: /exclude
ExcludeFile ==
    /\ context.changes < MaxChanges
    /\ \E p \in PathSet :
          /\ context.include_files[p] # "none"
          /\ context' = [context EXCEPT !.include_files[p] = "none",
                                        !.changes = @ + 1]
    /\ UNCHANGED <<parserVars, kernelVars, turn, selection, tree, app, agent>>

\* the settings of code_context.py 29-35 are given another value
ChangeSettings ==
    /\ context.changes < MaxChanges
    /\ \E s \in [diff : {"none", "HEAD"}, no_code_map : BOOLEAN,
                 use_embedding : BOOLEAN, auto_tokens : {NoLimit, 0, 4}] :
          /\ Cardinality({k \in DOMAIN s : s[k] # context.settings[k]}) = 1
          /\ context' = [context EXCEPT !.settings = s, !.changes = @ + 1]
    /\ UNCHANGED <<parserVars, kernelVars, turn, selection, tree, app, agent>>

\* a file of the repository is written, created or (unless the user
\* included it) removed
ChangeFile ==
    /\ context.changes < MaxChanges
    /\ \E p \in PathSet, content \in FileContents \cup {0} :
          /\ content # context.repo[p]
          /\ content = 0 => context.include_files[p] = "none"
          /\ context' = [context EXCEPT !.repo[p] = content, !.changes = @ + 1]
    /\ UNCHANGED <<parserVars, kernelVars, turn, selection, tree, app, agent>>

\* code_context.py 152-165: get_code_message
GetCodeMessage ==
    /\ context.calls < MaxCalls
    /\ \E prompt \in Prompts, max_tokens \in Budgets :
          LET c == [context EXCEPT !.calls = @ + 1,
                                   !.prompt = prompt,
                                   !.max_tokens = max_tokens]
          IN  context' =
                 IF ~c.cached \/ GetCodeMessageChecksum(c, max_tokens) # c.checksum
                 THEN ComputeCodeMessage(c, prompt, max_tokens)
                 ELSE [c EXCEPT !.hit = TRUE]
    /\ UNCHANGED <<parserVars, kernelVars, turn, selection, tree, app, agent>>

ContextNext ==
    \/ IncludeFile
    \/ ExcludeFile
    \/ ChangeSettings
    \/ ChangeFile
    \/ GetCodeMessage

ContextSpec == ContextInit /\ [][ContextNext]_vars

(***************************************************************************)
(* The code map over a session: the settings are those the context was     *)
(* built with (code_context.py 45-51), and ctags may stop or start working *)
(* between two computations of the message.                                *)
(***************************************************************************)
CodeMapInit ==
    /\ text = <<>>
    /\ pos = 0
    /\ shutdown = FALSE
    /\ parser = InitFrame
    /\ app = InitApp
    /\ agent = InitAgent
    /\ session = InitSession
    /\ client = InitClient
    /\ stream = InitStream
    /\ turn = InitTurn
    /\ \E ctags \in BOOLEAN,
          s \in [diff : {"none"}, no_code_map : {FALSE},
                 use_embedding : BOOLEAN, auto_tokens : {NoLimit}] :
          context = [InitContext EXCEPT !.ctags = ctags, !.settings = s]
    /\ selection = InitSelection
    /\ tree = InitTree

\* code_map.py check_ctags_disabled: what it finds changes with the machine
CheckCtagsChanges ==
    /\ context.changes < MaxChanges
    /\ context' = [context EXCEPT !.ctags = ~@, !.changes = @ + 1]
    /\ UNCHANGED <<parserVars, kernelVars, turn, selection, tree, app, agent>>

CodeMapNext ==
    \/ IncludeFile
    \/ ExcludeFile
    \/ ChangeFile
    \/ CheckCtagsChanges
    \/ GetCodeMessage

CodeMapSpec == CodeMapInit /\ [][CodeMapNext]_vars

(***************************************************************************)
(* The feature selectors' actions: select is called on arguments drawn     *)
(* from the sets above.                                                    *)
(***************************************************************************)
SelectorInit ==
    /\ text = <<>>
    /\ pos = 0
    /\ shutdown = FALSE
    /\ parser = InitFrame
    /\ app = InitApp
    /\ agent = InitAgent
    /\ session = InitSession
    /\ client = InitClient
    /\ stream = InitStream
    /\ turn = InitTurn
    /\ context = InitContext
    /\ \E features \in ListsOf(CandidateFeatures, MaxFeatures),
          max_tokens \in 0..MaxBudget,
          levels \in LevelsArguments :
          selection = [InitSelection EXCEPT
                          !.features = Numbered(features),
                          !.input = Numbered(features),
                          !.max_tokens = max_tokens,
                          !.levels = levels]
    /\ tree = InitTree

\* GreedyFeatureSelector.select
GreedySelect ==
    /\ selection.pc = "args"
    /\ LET result == Greedy(selection.features, 1, selection.max_tokens,
                            selection.levels, <<>>)
       IN  selection' = [selection EXCEPT !.pc = "returned",
                                          !.selector = "greedy",
                                          !.features = result.features,
                                          !.output = result.output]
    /\ UNCHANGED <<parserVars, kernelVars, turn, context, tree, app, agent>>

\* LLMFeatureSelector.select: the selector model answers with a list of
\* references or with text that is not JSON
LLMFeatureSelect ==
    /\ selection.pc = "args"
    /\ \E preselect_max_tokens \in {0, MaxBudget},
          json \in BOOLEAN,
          refs \in ListsOf(CandidateRefs, MaxRefs) :
          /\ ~json => refs = <<>>
          /\ LET s == DefaultFilter(LLMSelect(
                          [selection EXCEPT
                              !.selector = "llm",
                              !.preselect_max_tokens = preselect_max_tokens],
                          [json |-> json, refs |-> refs]))
             IN  selection' = [s EXCEPT !.pc = IF s.raised = "none"
                                               THEN "returned" ELSE "raised"]
    /\ UNCHANGED <<parserVars, kernelVars, turn, context, tree, app, agent>>

\* auto_context.py 95-100: the selector model's context size is unknown
LLMUnknownModel ==
    /\ selection.pc = "args"
    /\ selection' = [selection EXCEPT !.pc = "raised",
                                      !.selector = "llm",
                                      !.raised = "UserError"]
    /\ UNCHANGED <<parserVars, kernelVars, turn, context, tree, app, agent>>

SelectorNext == GreedySelect \/ LLMFeatureSelect \/ LLMUnknownModel

SelectorSpec == SelectorInit /\ [][SelectorNext]_vars

\* ---- the edit applier and the edit history ----

HistoryInit ==
    /\ text = <<>>
    /\ pos = 0
    /\ shutdown = FALSE
    /\ parser = InitFrame
    /\ app = InitApp
    /\ agent = InitAgent
    /\ session = InitSession
    /\ client = InitClient
    /\ stream = InitStream
    /\ turn = InitTurn
    /\ context = InitContext
    /\ selection = InitSelection
    /\ \E files \in [PathSet -> {Absent, 1}], agent_enabled \in BOOLEAN :
          tree = [InitTree EXCEPT !.files = files,
                                  !.before = files,
                                  !.since = files,
                                  !.agent_enabled = agent_enabled]

\* session.py 153-157: the user sends a request
UserRequest ==
    /\ tree.pc = "prompt"
    /\ tree' = [tree EXCEPT !.pc = "turn",
                            !.boundary = Len(tree.edits),
                            !.last = "request"]
    /\ UNCHANGED <<parserVars, kernelVars, turn, context, selection, app, agent>>

\* session.py 159-178: the response has valid edits and the main task awaits
\* write_changes_to_files
BeginWriteOf(n) ==
    /\ tree.pc = "turn"
    /\ tree.writes < MaxWrites
    /\ \E file_edits \in FileEditLists(tree.files, n) \ {<<>>} :
          tree' = [tree EXCEPT !.pc = "writing",
                               !.pending = file_edits,
                               !.in_flight = @ \cup {"write"}]
    /\ UNCHANGED <<parserVars, kernelVars, turn, context, selection, app, agent>>

BeginWrite == BeginWriteOf(MaxEdits)

\* session.py 176-192: write_changes_to_files returns, the edits are applied.
\* Outside agent mode the user accepted them and is asked next; in agent
\* mode add_agent_context decides whether the model goes on
ApplyFileEdits ==
    /\ tree.pc = "writing"
    /\ \E need_user_request \in BOOLEAN :
          /\ ~tree.agent_enabled => need_user_request
          /\ LET t == [WriteChangesToFiles(tree, tree.pending)
                         EXCEPT !.pc = "turn",
                                !.pending = <<>>,
                                !.in_flight = @ \ {"write"}]
             IN  tree' = IF need_user_request THEN BeforeUserRequest(t) ELSE t
    /\ UNCHANGED <<parserVars, kernelVars, turn, context, selection, app, agent>>

\* session.py 190-191: the response has no valid edit
NoFileEdits ==
    /\ tree.pc = "turn"
    /\ tree' = BeforeUserRequest(tree)
    /\ UNCHANGED <<parserVars, kernelVars, turn, context, selection, app, agent>>

\* faulty variant: a command is applied by a task of its own, whatever the
\* main task is doing
CollectsInputAnyTask(t) == t.pc \in {"prompt", "writing"}

\* session.py 154, session_input.py 52-66: commands are applied by
\* collect_input_with_commands, which the main task awaits before a turn
CollectsInput(t) == t.pc = "prompt"

\* the /undo command
UndoCommand ==
    /\ CollectsInput(tree)
    /\ tree.last # "undo"
    /\ tree' = [HistoryUndo(tree) EXCEPT !.last = "undo",
                                         !.immediate = tree.last = "write"]
    /\ UNCHANGED <<parserVars, kernelVars, turn, context, selection, app, agent>>

\* the /undo-all command
UndoAllCommand ==
    /\ CollectsInput(tree)
    /\ tree.last # "undo"
    /\ tree' = [HistoryUndoAll(tree) EXCEPT !.last = "undo",
                                            !.immediate = tree.last = "write"]
    /\ UNCHANGED <<parserVars, kernelVars, turn, context, selection, app, agent>>

\* the /agent command
AgentCommand ==
    /\ tree.pc = "prompt"
    /\ tree' = [tree EXCEPT !.agent_enabled = ~@]
    /\ UNCHANGED <<parserVars, kernelVars, turn, context, selection, app, agent>>

\* the /commit command, git_handler.commit: git add and git commit run to
\* their end inside the call; the files stay as they are
CommitCommand ==
    /\ CollectsInput(tree)
    /\ tree.last # "commit"
    /\ tree' = [tree EXCEPT !.last = "commit"]
    /\ UNCHANGED <<parserVars, kernelVars, turn, context, selection, app, agent>>

\* the client asks for completions of what the user is typing
RequestCompletions ==
    /\ ~tree.completion_request
    /\ tree' = [tree EXCEPT !.completion_request = TRUE]
    /\ UNCHANGED <<parserVars, kernelVars, turn, context, selection, app, agent>>

\* session.py 206-212: listen_for_completion_requests, a background task,
\* serves the request whatever the main task is doing
CompletionRequest ==
    /\ tree.completion_request
    /\ tree' = [tree EXCEPT !.completion_request = FALSE]
    /\ UNCHANGED <<parserVars, kernelVars, turn, context, selection, app, agent>>

HistoryNext ==
    \/ UserRequest
    \/ BeginWrite
    \/ ApplyFileEdits
    \/ NoFileEdits
    \/ UndoCommand
    \/ UndoAllCommand
    \/ AgentCommand

HistorySpec == HistoryInit /\ [][HistoryNext]_vars

(***************************************************************************)
(* The agent handler's actions.                                            *)
(***************************************************************************)
AgentInit ==
    /\ text = <<>>
    /\ pos = 0
    /\ shutdown = FALSE
    /\ parser = InitFrame
    /\ app = InitApp
    /\ agent = InitAgent
    /\ session = InitSession
    /\ client = InitClient
    /\ stream = InitStream
    /\ turn = InitTurn
    /\ context = InitContext
    /\ selection = InitSelection
    /\ tree = InitTree

\* enable_agent_mode is called
EnableAgent ==
    /\ agent.calls < MaxCalls
    /\ \E raises \in BOOLEAN, content \in FileAnswers,
          unreadable \in PathSet \cup {"none"} :
          agent' = EnableAgentMode(agent, raises, content, unreadable)
    /\ UNCHANGED <<parserVars, kernelVars, turn, context, selection, tree, app>>

\* disable_agent_mode is called
DisableAgent ==
    /\ agent.last # "disabled"
    /\ agent' = DisableAgentMode(agent)
    /\ UNCHANGED <<parserVars, kernelVars, turn, context, selection, tree, app>>

AgentNext ==
    \/ EnableAgent
    \/ DisableAgent

AgentSpec == AgentInit /\ [][AgentNext]_vars

(***************************************************************************)
(* The legacy loop's actions.                                              *)
(***************************************************************************)
AppInit ==
    /\ text = <<>>
    /\ pos = 0
    /\ shutdown = FALSE
    /\ parser = InitFrame
    /\ app = InitApp
    /\ agent = InitAgent
    /\ session = InitSession
    /\ client = InitClient
    /\ stream = InitStream
    /\ turn = InitTurn
    /\ context = InitContext
    /\ selection = InitSelection
    /\ tree = InitTree

\* app.py 131-134: the user's request is collected and the model is asked
AppUserRequest ==
    /\ app.pc = "request"
    /\ app' = [app EXCEPT !.pc = "model"]
    /\ UNCHANGED <<parserVars, kernelVars, turn, context, selection, tree, agent>>

\* app.py 134-147: the model's response; without changes the user is asked
\* for the next request
AppModelResponse ==
    /\ app.pc = "model"
    /\ app.responses < MaxResponses
    /\ \E n \in 0..MaxEdits :
          app' = [app EXCEPT !.responses = @ + 1,
                             !.code_changes = n,
                             !.asked = FALSE,
                             !.user_response = <<>>,
                             !.steps = <<>>,
                             !.written = {},
                             !.need_user_request = IF n = 0 THEN TRUE ELSE @,
                             !.pc = IF n = 0 THEN "request" ELSE "feedback"]
    /\ UNCHANGED <<parserVars, kernelVars, turn, context, selection, tree, agent>>

\* app.py 136-144: the feedback round, then the head of the loop
AppFeedback ==
    /\ app.pc = "feedback"
    /\ \E user_response \in ApplyAnswers, kept \in SUBSET (1..app.code_changes) :
          LET a == GetUserFeedbackOnChanges(app, user_response, kept)
          IN  app' = [a EXCEPT !.pc = IF a.need_user_request
                                      THEN "request" ELSE "model"]
    /\ UNCHANGED <<parserVars, kernelVars, turn, context, selection, tree, agent>>

AppNext ==
    \/ AppUserRequest
    \/ AppModelResponse
    \/ AppFeedback

AppSpec == AppInit /\ [][AppNext]_vars

(***************************************************************************)
(* The tasks around the working tree: the main task applies edits and      *)
(* commands, a background task serves completion requests.  The responses  *)
(* carry one edit each.                                                    *)
(***************************************************************************)
BeginWriteOne == BeginWriteOf(1)

MutationNext ==
    \/ UserRequest
    \/ BeginWriteOne
    \/ ApplyFileEdits
    \/ NoFileEdits
    \/ UndoCommand
    \/ UndoAllCommand
    \/ AgentCommand
    \/ CommitCommand
    \/ RequestCompletions
    \/ CompletionRequest

MutationSpec == HistoryInit /\ [][MutationNext]_vars

\* ---- the /clear command on a session with a history and a context ----

ClearInit ==
    /\ text = <<>>
    /\ pos = 0
    /\ shutdown = FALSE
    /\ parser = InitFrame
    /\ app = InitApp
    /\ agent = InitAgent
    /\ session = InitSession
    /\ client = InitClient
    /\ stream = InitStream
    /\ \E conversation \in PriorHistories :
          turn = [InitTurn EXCEPT !.pc = "input",
                                  !.conversation = conversation]
    /\ context = InitContext
    /\ selection = InitSelection
    /\ tree = InitTree

\* session_input.py 52-66 with clear.py 9-21: the user types /clear
ClearCommand ==
    /\ turn.pc = "input"
    /\ context.changes < MaxChanges
    /\ LET result == ClearApply(turn, context)
       IN  /\ turn' = result.turn
           /\ context' = [result.context EXCEPT !.changes = @ + 1]
    /\ UNCHANGED <<parserVars, kernelVars, selection, tree, app, agent>>

ClearNext ==
    \/ IncludeFile
    \/ ExcludeFile
    \/ GetCodeMessage
    \/ ClearCommand

ClearSpec == ClearInit /\ [][ClearNext]_vars

\* ---- the include set under /include and /exclude ----

IncludeInit ==
    /\ text = <<>>
    /\ pos = 0
    /\ shutdown = FALSE
    /\ parser = InitFrame
    /\ app = InitApp
    /\ agent = InitAgent
    /\ session = InitSession
    /\ client = InitClient
    /\ stream = InitStream
    /\ turn = InitTurn
    /\ context = InitContext
    /\ selection = InitSelection
    /\ tree = InitTree

\* /include with a path that matches any files, some of them already included
IncludePaths ==
    /\ context.changes < MaxChanges
    /\ \E pattern \in Patterns :
          context' = [CodeContextIncludeFile(context,
                          GetIncludeFiles(context, pattern))
                        EXCEPT !.changes = @ + 1]
    /\ UNCHANGED <<parserVars, kernelVars, turn, selection, tree, app, agent>>

\* /exclude with a path that matches any files, included or not
ExcludePaths ==
    /\ context.changes < MaxChanges
    /\ \E pattern \in Patterns :
          context' = [CodeContextExcludeFile(context,
                          GetIncludeFiles(context, pattern))
                        EXCEPT !.changes = @ + 1]
    /\ UNCHANGED <<parserVars, kernelVars, turn, selection, tree, app, agent>>

IncludeNext ==
    \/ IncludePaths
    \/ ExcludePaths
    \/ ChangeFile

IncludeSpec == IncludeInit /\ [][IncludeNext]_vars


(***************************************************************************)
(* Properties of the parser.                                               *)
(***************************************************************************)
\* the strings that are not text of the response: headers, context lines, errors
Markers ==
    {"<file_name>", "<change_delimiter>", "<previous_lines>", "<removed_lines>",
     "<later_lines>", "<model_error>", "<using_existing>"}

LinePrints(printed) == SelectSeq(StripAnsi(printed), LAMBDA a : a \notin Markers)

\* the parse of the whole response delivered as one chunk
FinishRun(p) == IF p.pc = "returned" THEN p ELSE StreamEndReturn(p)

WholeRun(t) == FinishRun(ProcessChunk(InitFrame, t))

Stored(p, path) == p.file_edits[EditIndex(p.file_edits, path)]

\* C4: after an interrupt inside a code block the returned edits hold, for
\* the open block's file, a replacement with the code lines received so far.
C4_OpenBlockCommitted ==
    (/\ parser.pc = "returned"
     /\ parser.interrupted
     /\ parser.in_code_lines
     /\ ~parser.in_special_lines
     /\ CodeLines(parser.cur_block) # <<>>)
        => \E i \in 1..Len(parser.result) :
              /\ parser.result[i].file_path = parser.file_edit[1]
              /\ \E j \in 1..Len(parser.result[i].replacements) :
                    parser.result[i].replacements[j].new_lines
                        = CodeLines(parser.cur_block)

\* C5: without an interrupt, whatever the chunks were, the returned message
\* and FileEdits are those of the same response delivered as a single chunk
\* (so any two segmentations of a response return the same).
C5_SegmentationIndependent ==
    (parser.pc = "returned" /\ ~parser.interrupted)
        => /\ parser.message = WholeRun(text).message
           /\ parser.result = WholeRun(text).result

C5_Witness ==
    /\ parser.pc = "returned"
    /\ ~parser.interrupted
    /\ ~parser.model_error
    /\ Len(text) > 2 * MaxChunk
    /\ Len(parser.result) >= 2
    /\ \E i \in 1..Len(parser.result) :
          \E j \in 1..Len(parser.result[i].replacements) :
             parser.result[i].replacements[j].new_lines # <<>>

\* what the claim expects on the screen for the lines of a response
RECURSIVE ExpectedOut(_, _)
ExpectedOut(lines, mode) ==
    IF lines = <<>> THEN <<>>
    ELSE IF mode = "Conv"
    THEN IF StartsSpecial(Strip(Head(lines)))
         THEN ExpectedOut(Tail(lines), "Special")
         ELSE Head(lines) \o ExpectedOut(Tail(lines), "Conv")
    ELSE IF mode = "Special"
    THEN ExpectedOut(Tail(lines),
                     IF Strip(Head(lines)) = BlockCode THEN "Code"
                     ELSE IF Strip(Head(lines)) = BlockEnd THEN "Conv"
                     ELSE "Special")
    ELSE IF EndsCode(Strip(Head(lines)))
         THEN ExpectedOut(Tail(lines), "Conv")
         ELSE <<"+">> \o Head(lines) \o ExpectedOut(Tail(lines), "Code")

\* C6: when the parse returns (no interrupt, no malformed header), the text
\* printed for conversation and code lines, colours stripped, is every
\* non-special line of the response: conversation lines verbatim, code lines
\* behind a "+".
C6_PrintsEveryNonSpecialLine ==
    (parser.pc = "returned" /\ ~parser.interrupted /\ ~parser.model_error)
        => LinePrints(parser.printed) = ExpectedOut(ChunkToLines(text), "Conv")

Mode(p) ==
    IF p.in_special_lines THEN "Special"
    ELSE IF p.in_code_lines THEN "Code"
    ELSE "Conv"

ModeStepAllowed(p, line, q) ==
    /\ ~(q.in_special_lines /\ q.in_code_lines)
    /\ \/ Mode(q) = Mode(p)
       \/ Mode(p) = "Conv" /\ Mode(q) = "Special" /\ StartsSpecial(Strip(line))
       \/ Mode(p) = "Special" /\ Mode(q) \in {"Conv", "Code"}
              /\ EndsSpecial(Strip(line))
       \/ Mode(p) = "Code" /\ Mode(q) = "Conv" /\ EndsCode(Strip(line))

\* C7: the parser is never in Special and Code mode at once, and from every
\* frame at a line boundary every next line changes the mode only by
\* Conv->Special, Special->Conv, Special->Code or Code->Conv.
C7_ModeTransitions ==
    /\ ~(parser.in_special_lines /\ parser.in_code_lines)
    /\ (parser.pc = "loop" /\ parser.cur_line = <<>>)
          => \A line \in {l \in LineSegs : HasNL(l)} :
                ModeStepAllowed(parser, line, ProcessContent(parser, line))

\* C8: no two FileEdits of the edit map received blocks about one
\* underlying file (the file a name stands for, renames followed).
C8_OneEditPerFile ==
    \A i, j \in 1..Len(parser.file_edits) :
        i # j => parser.origins[parser.file_edits[i].file_path]
                     \cap parser.origins[parser.file_edits[j].file_path] = {}

\* C9: when a special block targets a path that already has a FileEdit, the
\* stored edit's is_creation and is_deletion are the OR of the old and the
\* new values, its rename target is the new block's if it declares one and
\* the old one otherwise, and no two stored edits have the same path.
C9_MergeFlags ==
    /\ \A i, j \in 1..Len(parser.file_edits) :
          parser.file_edits[i].file_path = parser.file_edits[j].file_path => i = j
    /\ (parser.last_special # <<>> /\ parser.last_special[1].merged)
          => /\ Stored(parser, parser.last_special[1].path).is_creation
                   = (parser.last_special[1].old.is_creation
                        \/ parser.last_special[1].new.is_creation)
             /\ Stored(parser, parser.last_special[1].path).is_deletion
                   = (parser.last_special[1].old.is_deletion
                        \/ parser.last_special[1].new.is_deletion)
             /\ Stored(parser, parser.last_special[1].path).rename_file_path
                   = (IF parser.last_special[1].new.rename_file_path # NoPath
                      THEN parser.last_special[1].new.rename_file_path
                      ELSE parser.last_special[1].old.rename_file_path)

C9_Witness ==
    /\ parser.last_special # <<>>
    /\ parser.last_special[1].merged
    /\ parser.last_special[1].old.is_creation
    /\ ~parser.last_special[1].new.is_creation
    /\ parser.last_special[1].old.rename_file_path # NoPath
    /\ parser.last_special[1].new.rename_file_path = NoPath

\* C10: every stored FileEdit's replacement list is the concatenation, in
\* stream order, of the replacements of every block stored under its path.
C10_ReplacementsConcatenated ==
    \A i \in 1..Len(parser.file_edits) :
        parser.file_edits[i].replacements
            = parser.carried[parser.file_edits[i].file_path]

(***************************************************************************)
(* Properties of the kernel.                                               *)
(***************************************************************************)
\* the requests whose prompt the user has answered
Answered == {id \in 1..MaxRequests : client.typed[id] # Untyped}

\* C1 as claimed: every input request whose prompt the user answered,
\* whatever was typed, has exactly one response on input_request:{id}.
C1_EveryRequestAnswered ==
    \A id \in Answered : Len(stream.responses[id]) = 1

\* C1 as amended: a request gets exactly one response, carrying what was
\* typed, when the user typed anything but "q"; when the user typed "q" no
\* response is published for it and exit is requested instead; nothing is
\* published for a request before its prompt is answered.
C1_AnsweredUnlessQuit ==
    \A id \in 1..MaxRequests :
        /\ client.typed[id] # Untyped => id <= stream.input_request
        /\ stream.responses[id] =
              (IF client.typed[id] \in {Untyped, "q"}
               THEN <<>>
               ELSE <<client.typed[id]>>)
        /\ client.typed[id] = "q" => client.should_exit

C1_Witness ==
    /\ client.typed[1] = "hi"
    /\ stream.responses[1] = <<"hi">>
    /\ client.typed[2] = "q"
    /\ stream.responses[2] = <<>>
    /\ client.handler = "done"

\* C2: client_exit is never published twice, and once session_exit is
\* published or the turn loop has ended (SessionExit, cancellation, an API
\* error, any other exception) client_exit is eventually published.
C2_ClientExitOnce ==
    /\ [](stream.client_exit <= 1)
    /\ (stream.session_exit > 0 \/ session.ended # "none")
          ~> (stream.client_exit = 1)

C2_Witness ==
    /\ stream.session_exit > 0
    /\ session.ended = "CancelledError"
    /\ session.stopped
    /\ session.pc = "done"
    /\ stream.client_exit = 1

\* C3: a SIGINT with the interrupt lock held creates one task that sends on
\* the interrupt channel and neither requests nor forces exit; a SIGINT
\* without the lock requests exit, or force-exits when exit was already
\* requested; and every run of a send task publishes exactly one message on
\* the interrupt channel.
C3_SigIntHandling ==
    [][/\ client'.sigints = client.sigints + 1 =>
             IF stream.interrupt_lock
             THEN /\ client'.interrupt_tasks = client.interrupt_tasks + 1
                  /\ client'.should_exit = client.should_exit
                  /\ ~client'.force_exited
                  /\ stream' = stream
             ELSE IF ~client.should_exit
             THEN /\ client'.should_exit
                  /\ ~client'.force_exited
                  /\ client'.interrupt_tasks = client.interrupt_tasks
                  /\ stream' = stream
             ELSE client'.force_exited
       /\ stream'.interrupt # stream.interrupt =>
             /\ stream'.interrupt = stream.interrupt + 1
             /\ client'.interrupt_tasks = client.interrupt_tasks - 1
             /\ client'.sigints = client.sigints]_vars

C3_Witness ==
    /\ stream.interrupt = 1
    /\ client.sigints = 3
    /\ client.should_exit
    /\ client.force_exited

(***************************************************************************)
(* Properties of the parser at the end of the stream and at a ModelError.  *)
(***************************************************************************)
EndsLine(t) == t = <<>> \/ t[Len(t)] = NL

\* the response followed by the code terminator on a line of its own
WithTerminator(t) ==
    IF EndsLine(t) THEN t \o Line(BlockEnd) ELSE t \o <<NL>> \o Line(BlockEnd)

\* C11: when the stream ends, uninterrupted, inside a code block, the edits
\* returned are those returned when the code terminator follows.
C11_StreamEndClosesBlock ==
    (/\ parser.pc = "returned"
     /\ ~parser.interrupted
     /\ ~parser.model_error
     /\ parser.in_code_lines
     /\ ~parser.in_special_lines)
        => parser.result = WholeRun(WithTerminator(text)).result

\* the response as it was before the special block parsed last began
BeforeBlock(p) == SubSeq(p.message, 1, p.block_start)

\* C12: when a special block is malformed the parser prints the error, reads
\* no more of the stream and returns the edits of the response up to that
\* block: the failing block adds or changes nothing and what came before it
\* is returned complete.
C12_ModelErrorReturnsEarlierEdits ==
    (parser.pc = "returned" /\ parser.model_error)
        => /\ parser.result = WholeRun(BeforeBlock(parser)).result
           /\ parser.result = parser.file_edits
           /\ IsPrefix(parser.message, text)
           /\ Len(parser.printed) >= 2
           /\ SubSeq(parser.printed, Len(parser.printed) - 1, Len(parser.printed))
                 = <<"<model_error>", "<using_existing>">>

(***************************************************************************)
(* Properties of the turn loop's error handling.                           *)
(***************************************************************************)
\* C13: after a provider error in a turn (rate limit, timeout, bad request)
\* the turn loop is still running, the session is not stopped and no
\* client_exit is published.
C13_ProviderErrorKeepsRunning ==
    session.ended = "ApiError"
        => /\ session.pc \in {"await_input", "respond"}
           /\ ~session.stopped
           /\ stream.client_exit = 0

\* C14: nothing but SessionExit and cancellation ends the turn loop; after a
\* UserError or another error of a turn or of a command the loop is still
\* running and the session is not stopped.
C14_OnlyExitAndCancelEndLoop ==
    /\ session.ended \in {"none", "SessionExit", "CancelledError"}
    /\ session.stopped => session.ended \in {"SessionExit", "CancelledError"}

\* C15: a turn that raises ContextSizeInsufficient is aborted without
\* applying an edit or publishing on edits_complete, the session keeps
\* running, and the next iteration asks the user for input
\* (need_user_request is true), in agent mode too.
C15_ContextSizeInsufficientAsksUser ==
    [][turn'.aborted > turn.aborted
          => /\ turn'.need_user_request
             /\ turn'.pc = "input"
             /\ turn'.ended = "none"
             /\ turn'.applied = turn.applied
             /\ turn'.edits_complete = turn.edits_complete]_vars

\* an autonomous agent iteration (the commands were run, the model was
\* asked again without user input) was aborted and the user is asked
C15_Witness ==
    /\ turn.aborted > 0
    /\ turn.agent_enabled
    /\ turn.pc = "input"
    /\ Len(turn.log) >= 2
    /\ turn.log[Len(turn.log)] = "push"
    /\ turn.log[Len(turn.log) - 1] = "run"

\* C16 as stated: collect_user_input raises SessionExit when the response
\* is the literal string "q", for every caller; any other response is
\* returned to the caller unchanged.
C16_LiteralQExits ==
    [][turn'.prompts > turn.prompts
          => IF turn'.answer = <<"q">>
             THEN turn'.ended = "SessionExit"
             ELSE turn'.ended = "none" /\ turn'.message = turn'.answer]_vars

\* C16, amended: collect_user_input raises SessionExit exactly when the
\* response is "q" once stripped of surrounding whitespace, for every
\* caller; any other response is returned to the caller unchanged.
C16_StrippedQExits ==
    [][turn'.prompts > turn.prompts
          => IF StripWs(turn'.answer) = <<"q">>
             THEN turn'.ended = "SessionExit" /\ turn'.message = turn.message
             ELSE turn'.ended = "none" /\ turn'.message = turn'.answer]_vars

\* the yes/no question of the agent was answered by " q", which ended the
\* session
C16_Witness ==
    /\ turn.caller = "agent_yes_no"
    /\ turn.answer = <<" ", "q">>
    /\ turn.ended = "SessionExit"

\* C17: what the session publishes on edits_complete at the end of a turn
\* is true iff the model's response of that turn produced at least one
\* valid edit, whatever the agent mode and whatever the user answered to
\* the apply prompt.
C17_EditsCompleteTellsValidEdits ==
    [][Len(turn'.edits_complete) > Len(turn.edits_complete)
          => turn'.edits_complete[Len(turn'.edits_complete)]
                 = (turn'.produced > 0)]_vars

\* add_agent_context returns in this step
AgentContextReturns ==
    /\ turn.pc \in {"agent_llm", "agent_yes_no", "agent_input"}
    /\ turn'.pc \in {"input", "model"}

\* C18: add_agent_context returns true (the user is asked next) whenever
\* the model's command list is empty, an empty or whitespace-only answer of
\* the model included, or the user declined to run commands; it returns
\* false only when commands were run.
C18_AgentContextResult ==
    [][AgentContextReturns
          => /\ StripWs(turn'.content) = <<>> => turn'.need_user_request
             /\ (turn'.declined /\ StripWs(turn'.answer) = <<>>)
                    => turn'.need_user_request
             /\ ~turn'.need_user_request => turn'.ran > turn.ran]_vars

\* the number of calls of history.push_edits in a log
RECURSIVE Pushes(_)
Pushes(log) ==
    IF log = <<>> THEN 0
    ELSE (IF Head(log) = "push" THEN 1 ELSE 0) + Pushes(Tail(log))

\* the main loop asks for a new user message in this step (the requests
\* collect_input_with_commands repeats after a command are not new ones)
AsksForMessage ==
    /\ turn'.pc = "input"
    /\ \/ turn.pc # "input"
       \/ turn'.prompts > turn.prompts /\ ~StartsWithSlash(turn'.answer)

\* C19: in agent mode the main loop calls history.push_edits only at a
\* user-input boundary, once for each message it asks the user for, and
\* never between autonomous agent iterations: every push is followed at
\* once by the user's message, so the edits written between two user
\* inputs are not split by a push.
C19_PushOnlyAtUserInput ==
    [][/\ Pushes(turn'.log) = Pushes(turn.log)
              + (IF AsksForMessage /\ turn.agent_enabled THEN 1 ELSE 0)
       /\ \A i \in 1..Len(turn'.log) :
             turn'.log[i] = "push"
                 => IF i = Len(turn'.log)
                    THEN turn'.pc \in {"input", "done"}
                    ELSE turn'.log[i + 1] \in {"input", "empty"}]_vars

\* two autonomous agent iterations wrote edits with no push between them,
\* and the edits were pushed when the user was asked again
C19_Witness ==
    /\ turn.agent_enabled
    /\ turn.pc = "input"
    /\ \E i \in 1..Len(turn.log) :
          /\ i + 3 = Len(turn.log)
          /\ turn.log[i] = "write"
          /\ turn.log[i + 1] = "run"
          /\ turn.log[i + 2] = "write"
          /\ turn.log[i + 3] = "push"

\* C20: after any sequence of turns the conversation, after its opening
\* system prompts, never holds two consecutive user messages nor two
\* consecutive assistant messages.
C20_RolesAlternate ==
    \A i \in 1..(Len(turn.conversation) - 1) :
        turn.conversation[i] \in {"user", "assistant"}
            => turn.conversation[i + 1] # turn.conversation[i]

\* C21: get_code_message returns its cached message only when none of its
\* inputs changed since the cached computation: the prompt, max_tokens, the
\* include set, the diff configuration, the auto-context settings and the
\* content of every repository file that can enter the message.
C21_CachedOnlyIfInputsUnchanged ==
    [][(context'.calls > context.calls /\ context'.hit)
          => MessageInputs(context', context'.prompt, context'.max_tokens)
                 = context'.computed_with]_vars

\* the auto-selected features of the active set
AutoSelected(c) == SelectSeq(c.features, LAMBDA f : f.path \notin Included(c))

\* C22: whatever max_tokens, the include set, auto_tokens and the
\* repository are, the code message get_code_message returns (metadata
\* lines plus all active features) has at most max_tokens tokens, and its
\* auto-selected part at most min(remaining, auto_tokens), remaining being
\* max_tokens less the metadata.
C22_MessageWithinBudget ==
    [][context'.calls > context.calls
          => LET c == context'
                 remaining == c.max_tokens - MetadataTokens(c)
             IN  /\ MessageTokens(c) <= c.max_tokens
                 /\ SumTokens(AutoSelected(c), c.repo)
                        <= IF c.settings.auto_tokens = NoLimit THEN remaining
                           ELSE Min(remaining, c.settings.auto_tokens)]_vars

\* the positions in the input of the features select returned
OutputIds == {selection.output[k].id : k \in 1..Len(selection.output)}

\* the tokens of the returned features that precede input feature i
SpentBefore(i) == SumSelected(SelectSeq(selection.output, LAMBDA f : f.id < i))

\* input feature i fits at no candidate level in what was left for it
FitsNowhere(i) ==
    LET feature == selection.input[i]
        levels == CandidateLevels(selection.levels, feature)
    IN  \A k \in 1..Len(levels) :
           SelectorTokens([feature EXCEPT !.level = levels[k]])
               > selection.max_tokens - SpentBefore(i)

\* C23: GreedyFeatureSelector.select returns a subsequence of its input
\* (same order, nothing that was not in the input), each feature whole at
\* one of its candidate levels, of at most max_tokens tokens in all; a
\* feature is dropped only when it fits at no candidate level, and the
\* features after it are still considered.
C23_GreedySelectsSubsequence ==
    (selection.pc = "returned" /\ selection.selector = "greedy")
        => LET out == selection.output
           IN  /\ \A k \in 1..(Len(out) - 1) : out[k].id < out[k + 1].id
               /\ \A k \in 1..Len(out) :
                     /\ out[k].id \in 1..Len(selection.input)
                     /\ out[k] = [selection.input[out[k].id] EXCEPT
                                     !.level = out[k].level]
                     /\ \E j \in 1..Len(CandidateLevels(selection.levels,
                                            selection.input[out[k].id])) :
                           CandidateLevels(selection.levels,
                               selection.input[out[k].id])[j] = out[k].level
               /\ SumSelected(out) <= selection.max_tokens
               /\ \A i \in 1..Len(selection.input) :
                     i \notin OutputIds => FitsNowhere(i)

\* the greedy selector dropped a feature and kept a later one
C23_Witness ==
    /\ selection.pc = "returned"
    /\ selection.selector = "greedy"
    /\ \E i, j \in 1..Len(selection.input) :
          i < j /\ i \notin OutputIds /\ j \in OutputIds

\* C24: when the selector model's response cannot be parsed into
\* references, LLMFeatureSelector raises a selector parse error of its own
\* and the selection falls back to the pipeline without the LLM selector:
\* the caller gets a feature list within budget, not a failed turn.
C24_ParseFailureFallsBack ==
    (selection.selector = "llm" /\ selection.pc # "args"
     /\ ~selection.response.json)
        => /\ selection.pc = "returned"
           /\ selection.fallback
           /\ SumSelected(selection.output) <= selection.max_tokens

\* the input features with the path of a returned feature and an interval
\* that intersects its interval
MatchesOf(out_feat) == MatchingInputs(selection.input, out_feat)

\* the values a field takes in a list of features, "none" left out
ValuesOf(features, field) ==
    {features[k][field] : k \in 1..Len(features)} \ {"none"}

\* C25: every feature LLMFeatureSelector.select returns has an input feature
\* of the same path and an intersecting interval, is user-included iff one
\* of its matching inputs is, and takes its diff and its name from a
\* matching input; a reference of the model that matches no input is never
\* returned; the returned features total at most max_tokens.
C25_LLMOutputMatchesInputs ==
    (selection.pc = "returned" /\ selection.selector = "llm")
        => LET out == selection.output
           IN  /\ \A k \in 1..Len(out) :
                     LET matching == MatchesOf(out[k])
                     IN  /\ matching # <<>>
                         /\ out[k].user_included
                               <=> \E m \in 1..Len(matching) :
                                      matching[m].user_included
                         /\ IF ValuesOf(matching, "diff") = {}
                            THEN out[k].diff = "none"
                            ELSE out[k].diff \in ValuesOf(matching, "diff")
                         /\ IF ValuesOf(matching, "name") = {}
                            THEN out[k].name = "none"
                            ELSE out[k].name \in ValuesOf(matching, "name")
               /\ \A i \in 1..Len(selection.response.refs) :
                     MatchesOf(selection.response.refs[i]) # <<>>
               /\ SumSelected(out) <= selection.max_tokens

\* the LLM selector returned a feature with two matching inputs, one of them
\* user-included and the other with a diff and a name, and dropped another
\* selected feature for the budget
C25_Witness ==
    /\ selection.pc = "returned"
    /\ selection.selector = "llm"
    /\ Len(selection.output) < Len(selection.postselected)
    /\ \E k \in 1..Len(selection.output) :
          /\ Len(MatchesOf(selection.output[k])) >= 2
          /\ selection.output[k].user_included
          /\ selection.output[k].diff = "HEAD"
          /\ selection.output[k].name = "f"

\* C26: no call of get_code_message, in manual or auto mode and for any
\* budget, adds, removes or replaces an entry of include_files: the include
\* set changes only in a step of include_file or exclude_file.
C26_IncludeSetOnlyChangedByUser ==
    [][/\ context'.calls > context.calls
          => context'.include_files = context.include_files
       /\ context'.include_files # context.include_files
          => IncludeFile \/ ExcludeFile]_vars

\* get_code_message computed a message in auto mode with a user-included
\* file and an auto-selected one
C26_Witness ==
    /\ context.calls > 0
    /\ ~context.hit
    /\ context.settings.auto_tokens # 0
    /\ context.computed_with.include_files = context.include_files
    /\ Included(context) # {}
    /\ AutoSelected(context) # <<>>

\* the features of the active set on one path
FeaturesOn(c, p) == SelectSeq(c.features, LAMBDA f : f.path = p)

\* C27: in the active feature set get_code_message returns, every
\* user-included file is present whatever the budget, exactly once (so never
\* also as an auto-selected feature), and as the feature the include set
\* gives it: auto selection and the embedding upgrade neither replace nor
\* re-level it.
C27_IncludedFeaturesKept ==
    [][context'.calls > context.calls
          => LET c == context'
                 include_features == GetIncludeFeatures(c)
             IN  \A i \in 1..Len(include_features) :
                    FeaturesOn(c, include_features[i].path)
                        = <<include_features[i]>>]_vars

\* get_code_message computed a message that holds a user-included file at
\* its include level and an auto-selected file the embedding upgrade raised
\* to CODE level
C27_Witness ==
    /\ context.calls > 0
    /\ ~context.hit
    /\ context.computed_with.include_files = context.include_files
    /\ \E p \in Included(context) :
          FeaturesOn(context, p)
              = <<[path |-> p, level |-> context.include_files[p],
                   diff |-> FALSE]>>
    /\ \E i \in 1..Len(context.features) :
          /\ context.features[i].path \notin Included(context)
          /\ context.features[i].level = "code"

\* get_code_message kept a user-included file whose tokens alone exceed
\* max_tokens
C27_WitnessOverBudget ==
    /\ context.calls > 0
    /\ ~context.hit
    /\ context.computed_with.include_files = context.include_files
    /\ Included(context) # {}
    /\ SumTokens(GetIncludeFeatures(context), context.repo) > context.max_tokens

\* C28 as stated: when the edits write_changes applied are undone at once,
\* by /undo or by /undo-all, every file has the content, the existence and
\* the name it had before the application.
C28_UndoRestoresTree ==
    [][(tree.last = "write" /\ tree'.last = "undo")
          => tree'.files = tree.before]_vars

\* C28: when /undo or /undo-all comes right after an application of edits,
\* every file has the content, the existence and the name it had before the
\* edits of the undone frame: before the application outside agent mode,
\* before the first application since the last user input in agent mode,
\* where the applications between two inputs are collected in one frame.
C28_UndoRestoresFrame ==
    [][(tree.last = "write" /\ tree'.last = "undo")
          => tree'.files = tree.since]_vars

\* two applications of agent mode on the same file were undone together
C28_Witness ==
    /\ tree.last = "undo"
    /\ tree.immediate
    /\ tree.agent_enabled
    /\ tree.writes = 2
    /\ tree.files = tree.since
    /\ tree.since # tree.before
    /\ tree.edits = <<>>

\* a rename with a replacement, applied outside agent mode, was undone
C28_WitnessRename ==
    /\ tree.last = "undo"
    /\ tree.immediate
    /\ ~tree.agent_enabled
    /\ tree.writes = 1
    /\ tree.files = tree.since
    /\ tree.files = [a |-> 1, b |-> Absent]

\* C29: after the /clear command, whatever the history was, the
\* conversation holds no user or assistant message from before (only the
\* opening system prompt remains), no auto-selected feature is left in the
\* context, and the user's include set is what it was.
C29_ClearKeepsIncludeSet ==
    [][turn'.log = Append(turn.log, "clear")
          => /\ turn'.conversation = <<>>
             /\ AutoSelected(context') = <<>>
             /\ context'.include_files = context.include_files
             /\ \A i \in 1..Len(GetIncludeFeatures(context)) :
                   FeaturesOn(context', GetIncludeFeatures(context)[i].path)
                       = FeaturesOn(context, GetIncludeFeatures(context)[i].path)]_vars

\* /clear was typed in a session with a history, an included file and
\* auto-selected features
C29_Witness ==
    /\ turn.log # <<>>
    /\ turn.log[Len(turn.log)] = "clear"
    /\ turn.conversation = <<>>
    /\ turn.forgotten > 0
    /\ context.cleared # <<>>
    /\ Included(context) # {}
    /\ context.features # <<>>
    /\ AutoSelected(context) = <<>>

\* the input is a command of an unknown name or with arguments that
\* cannot be parsed
UnprocessableCommand(data) ==
    /\ StartsWithSlash(data)
    /\ \/ CommandName(data) \notin CommandNames
       \/ ShlexRaises(CommandArguments(data))

\* C30: an unknown command name, or command arguments that cannot be
\* parsed, yields an error message on the stream and the session then
\* requests the next input: the session does not end, no model turn starts
\* and the conversation (and agent mode) is what it was.
C30_BadCommandFailsSoftly ==
    [][(turn.pc = "input" /\ turn'.prompts > turn.prompts
        /\ UnprocessableCommand(turn'.answer))
          => /\ turn'.errors = turn.errors + 1
             /\ turn'.pc = "input"
             /\ turn'.ended = "none"
             /\ turn'.responses = turn.responses
             /\ turn'.conversation = turn.conversation
             /\ turn'.agent_enabled = turn.agent_enabled
             /\ turn'.log = turn.log]_vars

\* after a turn with the model, the user typed an unknown command and was
\* told so
C30_Witness ==
    /\ turn.pc = "input"
    /\ turn.answer = <<"/", "bogus">>
    /\ turn.errors > 0
    /\ turn.conversation # <<>>
    /\ turn.ended = "none"

\* in agent mode, the user typed /agent with a quotation left open: agent
\* mode is still on
C30_WitnessUnparsed ==
    /\ turn.pc = "input"
    /\ turn.answer = <<"/", "agent", " ", "'">>
    /\ turn.errors > 0
    /\ turn.agent_enabled

\* the paths of an include set
PathsIn(include_files) == {p \in PathSet : include_files[p] # "none"}

\* C31: include_file adds every valid matched path that is not yet in the
\* include set and replaces no entry, so including twice equals including
\* once; exclude_file removes exactly the matched paths that are in the
\* include set, returns them and leaves the other entries alone; including
\* paths that were absent and then excluding them restores the include set.
C31_IncludeExcludeInverse ==
    /\ context.op = "include"
          => \A p \in PathSet :
                context.include_files[p] =
                    IF context.before[p] # "none" THEN context.before[p]
                    ELSE context.matched[p]
    /\ context.op = "exclude"
          => /\ context.returned
                    = PathsIn(context.matched) \cap PathsIn(context.before)
             /\ \A p \in PathSet :
                   context.include_files[p] =
                       IF p \in context.returned THEN "none"
                       ELSE context.before[p]
    /\ \A pattern \in Patterns :
          LET paths == GetIncludeFiles(context, pattern)
              once == CodeContextIncludeFile(context, paths)
              twice == CodeContextIncludeFile(once, paths)
              back == CodeContextExcludeFile(once, paths)
          IN  /\ twice.include_files = once.include_files
              /\ PathsIn(paths) \cap PathsIn(context.include_files) = {}
                    => back.include_files = context.include_files

\* a path matching an included file and a file not yet included was
\* included: the first kept its entry, asked at another level
C31_Witness ==
    /\ context.op = "include"
    /\ \E p, q \in PathSet :
          /\ context.before[p] = "code"
          /\ context.matched[p] = "interval"
          /\ context.include_files[p] = "code"
          /\ context.before[q] = "none"
          /\ context.include_files[q] # "none"

\* a path matching an included and a not included file was excluded
C31_WitnessExclude ==
    /\ context.op = "exclude"
    /\ context.returned # {}
    /\ PathsIn(context.matched) \ PathsIn(context.before) # {}

\* the place of a step in the steps of _stop taken so far, 0 when not taken
StepAt(step) ==
    IF \E i \in 1..Len(session.steps) : session.steps[i] = step
    THEN CHOOSE i \in 1..Len(session.steps) : session.steps[i] = step
    ELSE 0

\* what was published on the channels of the bus
Published(st) ==
    <<st.input_request, st.responses, st.session_exit, st.client_exit,
      st.interrupt, st.edits_complete>>

\* what the session published
PublishedBySession(st) == <<st.input_request, st.client_exit, st.edits_complete>>

\* C32 as stated: stop cancels the background tasks, drains the bus, emits
\* client_exit and joins, in this order; the stream is stopped only after
\* it has drained, and nothing is published on the bus after client_exit.
C32_DrainThenClientExit ==
    [][/\ StepAt("client_exit")' > 0
          => /\ 0 < StepAt("cancel_tasks")'
             /\ StepAt("cancel_tasks")' < StepAt("join")'
             /\ StepAt("join")' < StepAt("client_exit")'
       /\ stream'.stopped => StepAt("join")' > 0
       /\ stream.client_exit > 0 => Published(stream') = Published(stream)]_vars

\* the steps of Session._stop in the order of the code
StopOrder ==
    <<"cancel_tasks", "cancel_main", "await_main", "client_exit", "join", "stop">>

\* C32: stop cancels the background tasks and the main task, awaits the main
\* task, emits client_exit, awaits the join of the stream (the bus drains)
\* and stops the stream, in this order; the stream is stopped only after the
\* join, and the session publishes nothing after client_exit.
C32_ClientExitThenDrain ==
    [][/\ session'.steps = SubSeq(StopOrder, 1, Len(session'.steps))
       /\ stream'.stopped => StepAt("join")' > 0
       /\ stream'.client_exit > 0 <=> StepAt("client_exit")' > 0
       /\ stream.client_exit > 0
             => PublishedBySession(stream') = PublishedBySession(stream)]_vars

\* _stop ran to its end after the user had answered a request: the stream is
\* stopped
C32_Witness ==
    /\ stream.stopped
    /\ session.steps = StopOrder
    /\ session.pc = "done"
    /\ stream.client_exit = 1
    /\ \E id \in 1..MaxRequests : stream.responses[id] # <<>>

\* a step that applies /undo, /undo-all or /commit
CommandStep == tree'.last \in {"undo", "commit"} /\ tree'.last # tree.last

\* C33: at most one operation that mutates the working tree is in flight at
\* any time: the files change only when write_changes_to_files returns in
\* the main task or when a command is applied, a command is applied only
\* while the turn loop waits for input and never while
\* write_changes_to_files runs, and the background tasks leave the tree alone.
C33_OneMutationInFlight ==
    [][/\ Cardinality(tree'.in_flight) <= 1
       /\ CommandStep => (tree.pc = "prompt" /\ tree.in_flight = {})
       /\ tree'.in_flight # {} <=> tree'.pc = "writing"
       /\ tree'.files # tree.files
             => \/ tree.pc = "writing" /\ tree.in_flight = {"write"}
                \/ tree.pc = "prompt" /\ tree.in_flight = {} /\ CommandStep
       /\ tree'.completion_request # tree.completion_request
             => (tree'.files = tree.files /\ tree'.in_flight = tree.in_flight)]_vars

\* write_changes_to_files is running for the second time, after a command
\* undid the first application, and a completion request waits for the
\* background task
C33_Witness ==
    /\ tree.pc = "writing"
    /\ tree.in_flight = {"write"}
    /\ tree.pending # <<>>
    /\ tree.completion_request
    /\ tree.writes = 1
    /\ tree.edits = <<>>
    /\ tree.cur_edits = <<>>

\* the levels of the features the last computation selected by itself:
\* those of the paths that were not in the include set then
AutoLevels(c) ==
    IF ~c.cached THEN {}
    ELSE {c.features[i].level :
             i \in {j \in 1..Len(c.features) :
                       c.computed_with.include_files[c.features[j].path] = "none"}}

\* C34: when ctags is unavailable the warning is sent at most once over
\* any number of computations of the code message, and from then on the
\* code map stays disabled: every auto-selected feature is at the
\* file-name level, or at the code level when embeddings upgraded it.
C34_WarnedOnce ==
    [][/\ context'.warnings <= 1
       /\ context.warnings = 1
             => /\ context'.warnings = 1
                /\ context'.settings.no_code_map
       /\ context'.warnings = 1
             => /\ context'.settings.no_code_map
                /\ AutoLevels(context') \subseteq
                      (IF context'.settings.use_embedding
                       THEN {"file_name", "code"} ELSE {"file_name"})]_vars

\* the message was computed a second time after the warning, with ctags
\* working again, and an auto-selected feature is at the file-name level
C34_Witness ==
    /\ context.warnings = 1
    /\ context.calls = 2
    /\ ~context.hit
    /\ context.ctags
    /\ "file_name" \in AutoLevels(context)

\* the answer of the step begins with "/" and reached
\* collect_input_with_commands
SlashArrives ==
    /\ turn.pc = "input"
    /\ turn'.prompts = turn.prompts + 1
    /\ turn'.answer # <<>>
    /\ Head(turn'.answer) = "/"

\* a user message is added to the conversation
UserMessageAdded ==
    /\ Len(turn'.conversation) = Len(turn.conversation) + 1
    /\ turn'.conversation[Len(turn'.conversation)] = "user"

C35_WitnessUnsplit ==
    /\ turn.caller = "input"
    /\ turn.answer = <<"/", "agent", " ", "'">>
    /\ turn.dispatch = 0
    /\ turn.errors = 1
    /\ turn.pc = "input"

\* C36: a SIGINT that arrives while the session is starting up (the handler
\* is installed, the session is not assigned yet) makes the client request
\* exit, and no error is raised.
C36_StartupSigIntRequestsExit ==
    [][(session.pc = "unassigned" /\ client'.sigints = client.sigints + 1)
          => (client'.should_exit /\ client'.error = "none")]_vars

\* C37: in the legacy feedback round, whenever accepted changes are written
\* to files (answer y, empty answer, or a selection after i that is not
\* empty) the files were backed up earlier in the same round; free-text
\* feedback and n write nothing, and only free-text feedback returns
\* need_user_request = false.
C37_BackupBeforeWrite ==
    app.asked
       => /\ app.written # {} => app.steps = <<"backup", "write">>
          /\ Lower(app.user_response) \notin {<<"y">>, <<>>, <<"i">>}
                => app.written = {}
          /\ ~app.need_user_request
                <=> Lower(app.user_response) \notin {<<"y">>, <<>>, <<"n">>, <<"i">>}

\* the places of the loop inside add_agent_context
AgentPlaces == {"agent_llm", "agent_yes_no", "agent_input"}

\* C38: in agent mode the loop goes on to the next model call without
\* asking the user only when the last response had a valid edit, was not
\* interrupted and add_agent_context returned false (commands were run); a
\* response with no valid edit or an interrupted one hands control back to
\* the user, and after an interrupted response add_agent_context is not run.
C38_AgentLoopContinues ==
    [][/\ (turn.agent_enabled /\ turn.pc # "input" /\ turn'.pc = "model")
             => /\ turn'.produced > 0
                /\ ~turn'.interrupted
                /\ ~turn'.need_user_request
                /\ turn.pc \in AgentPlaces
                /\ turn'.ran > turn.ran
       /\ (turn.agent_enabled /\ turn.pc = "model"
             /\ turn'.responses = turn.responses + 1
             /\ (turn'.produced = 0 \/ turn'.interrupted))
             => (turn'.need_user_request /\ turn'.pc = "input")
       /\ turn'.pc \in AgentPlaces
             => (turn'.agent_enabled /\ ~turn'.interrupted /\ turn'.produced > 0)]_vars

\* the agent went on by itself: commands were run after a response with a
\* valid edit and the model is called again without a prompt
C38_Witness ==
    /\ turn.agent_enabled
    /\ turn.pc = "model"
    /\ ~turn.need_user_request
    /\ turn.produced > 0
    /\ ~turn.interrupted
    /\ turn.ran > 0
    /\ turn.responses = 1

\* an interrupted response with a valid edit handed control back
C38_WitnessInterrupted ==
    /\ turn.agent_enabled
    /\ turn.interrupted
    /\ turn.produced > 0
    /\ turn.applied > 0
    /\ turn.need_user_request
    /\ turn.pc = "input"
    /\ turn.ran = 0

\* C39: agent_enabled is true only if enable_agent_mode ran to completion
\* (the memo was computed from the model's answer) after the most recent
\* disable_agent_mode; when the model call inside enable_agent_mode fails,
\* agent_enabled stays as it was, false if it was false, and the memo is
\* the one from before.
C39_EnabledOnlyAfterCompletion ==
    [][/\ agent'.agent_enabled => agent'.completed
       /\ (agent'.calls = agent.calls + 1 /\ agent'.last = "enabled")
             => /\ agent'.agent_enabled
                /\ Len(agent'.transcript) = Len(agent.transcript) + 1
                /\ agent'.agent_file_message =
                      ExistingPaths(agent'.transcript[Len(agent'.transcript)])
       /\ (agent'.calls = agent.calls + 1 /\ agent'.last = "call failed")
             => /\ agent'.agent_enabled = agent.agent_enabled
                /\ agent'.agent_file_message = agent.agent_file_message
                /\ agent'.transcript = agent.transcript]_vars

\* the model call of a second enable_agent_mode failed after a disable: the
\* handler stays disabled with the memo of the first call
C39_Witness ==
    /\ agent.calls = 2
    /\ agent.last = "call failed"
    /\ ~agent.agent_enabled
    /\ ~agent.completed
    /\ agent.agent_file_message = <<"b", "a">>

\* the user entered "q" at a prompt of the terminal
QuitTyped == \E id \in 1..MaxRequests : client.typed[id] = "q"

\* exit(0) ended the client: a second SIGINT after exit was requested
ForceExited == client.force_exited

\* C40: once the user has entered "q" at the prompt, session_exit is
\* published, and never more than once; the session cancels its main task,
\* stops and publishes client_exit; and the client stops, its background
\* tasks cancelled and its stopped event set.  All of it happens with no
\* further input, from every state of the turn loop, unless the user forces
\* the exit with signals.
C40_QuitShutsDown ==
    /\ [](stream.session_exit <= 1)
    /\ QuitTyped ~> (stream.session_exit = 1 \/ ForceExited)
    /\ QuitTyped ~> ((session.stopped /\ stream.client_exit = 1) \/ ForceExited)
    /\ QuitTyped ~> (\/ /\ client.stopped
                        /\ client.handler \in {"done", "cancelled"}
                        /\ client.exit_sender \in {"done", "cancelled"}
                        /\ client.exit_listener = "done"
                        /\ client.interrupt_tasks = 0
                     \/ ForceExited)

\* after a turn the user entered "q" at the second prompt; the main task
\* was cancelled at its await and the client stopped
C40_Witness ==
    /\ client.typed[1] = "hi"
    /\ client.typed[2] = "q"
    /\ stream.session_exit = 1
    /\ session.ended = "CancelledError"
    /\ stream.client_exit = 1
    /\ client.stopped
    /\ ~client.force_exited
    /\ client.sigints = 0

====
